---------------------------- MODULE Spec2Model ----------------------------
(***************************************************************************)
(* Real-time connection fan-out layer of logistics-id/engine               *)
(* (package transport/ws): Hub, presence registry, Sender, AckStore and    *)
(* the per-connection lifecycle of the WebSocket orchestrator.             *)
(*                                                                         *)
(* The repository holds three Sender implementations: RMQSender (over the  *)
(* rabbitmq.Client wrapper), MQSender (over a raw amqp channel) and the    *)
(* older Sender/Hub/PresenceRegistry generation.  The variable impl fixes  *)
(* which of them a run is about.                                           *)
(***************************************************************************)
EXTENDS Integers, Sequences, FiniteSets, TLC

(***************************************************************************)
(* Bounds of the model.                                                    *)
(***************************************************************************)
MaxConns == 2   \* connection slots (each slot is reused by later connections)
SendCap  == 2   \* capacity of Conn.Send (make(chan []byte, 64), scaled down)
SenderSends == 1  \* Sender.SendToUser calls in one run of SpecSender
MaxTime  == 3   \* clock ticks in one run
AckTTL   == 2   \* AckStore.TTL in ticks (10 minutes, scaled down)
AckSends == 1   \* WebSocket.SendToUser calls in one run of SpecAck
RLLimit  == 2   \* RedisRateLimiter.Limit (20, scaled down)
RLWindow == 2   \* RedisRateLimiter.Window in ticks (10 seconds, scaled down)
RLCalls  == 4   \* RateLimiter.Allow calls in one run of SpecLimiter
PresTTL  == 5   \* RedisRegistry.TTL in ticks (24 hours, scaled down)
SvcTTL   == 2   \* grpc Config.TTL in ticks
SvcBeat  == SvcTTL \div 2   \* the period of the heartbeat ticker, ttl / 2
SvcTime  == 4   \* the clock of SpecGrpc stops here

Pods  == {"p1", "p2"}
Users == {"u1", "u2", "u1:x"}
Conns == 1..MaxConns
Addrs == {"a1", "a2"}   \* the advertised addresses of the gRPC servers of one service
Impls == {"rmq", "mq", "legacy"}

NoUser == ""            \* Envelope.UserID left empty
NoID   == ""            \* Envelope.ID left empty
NoExp  == 0 - 1         \* a key without expiry
None   == [none |-> TRUE]
NoCall == [called |-> FALSE]   \* the latest step was no Sender.SendToUser call
NoFrame == [type |-> "none"]   \* the latest step dispatched no frame
NoSweep == [done |-> FALSE]    \* the latest step was no retry sweep
NoServices == [members |-> {}, exp |-> 0 - 1]   \* the service's key does not exist
NoHandler == "none"            \* Router.handlers has no entry for the type

MsgTypes == {"ack", "restore", "chat"}   \* the type tags of inbound frames

VARIABLES
    impl,       \* the Sender implementation wired into the pods
    hasAck,     \* cfg.AckStore != nil
    now,        \* the clock, in ticks
    conn,       \* Conns -> [st, user, pod, send]: the Conn objects
    hub,        \* Pods -> Users -> set of Conns: each pod's Hub map
    presence,   \* Users -> set of Pods: the Redis set <ns>:user:<userID>
    presExp,    \* Users -> expiry of that key (NoExp: none)
    ackStore,   \* the Redis keys <prefix>:<userID>:<msgID> -> [data, exp]
    queue,      \* Pods -> sequence of broker messages routed to ws.send.<pod>
    inflight,   \* Pods -> the broker message the pod's consumer holds, or None
    retry,      \* connections whose retryUnacked goroutine was started, not yet run
    nSends,     \* number of SendToUser calls so far
    calls,      \* history: the Hub.SendLocal calls of the latest step
    last,       \* history: what the Sender.SendToUser call of the latest step did
    sent,       \* history: per acknowledgment-requiring send, what became of it
    rl,         \* Users -> the Redis key <prefix>:<userID> of the limiter, or None
    allowed,    \* history: Users -> the Allow calls made for the user, in order
    loops,      \* Conns -> [rd, wr]: where the connection's readLoop and writeLoop are
    crashedAt,  \* Pods -> the time the pod's process died, or NoExp
    track,      \* whether the history sent is kept in this run
    handled,    \* history: the frame or failed storage call of the latest step, or NoFrame
    handlers,   \* MsgTypes -> the handler in Router.handlers, or NoHandler
    regLog,     \* history: the Router.Register calls so far, in order
    lifecycle,  \* package engine: the hooks, where Run is, the signal, what ran (history)
    services,   \* package grpc: the Redis set <ns>:services:<name>, [members, exp]
    server,     \* package grpc: Addrs -> where the Server and its heartbeat task are
    legacyHub,  \* the older Hub of package ws: its locks, its map, where its goroutines are
    client,     \* package rabbitmq: the Client, its mutex, its subscriptions and goroutines
    swept       \* history: what the retry sweep of the latest step redelivered

vars == << impl, hasAck, now, conn, hub, presence, presExp, ackStore, queue,
           inflight, retry, nSends, calls, last, sent, swept, rl, allowed,
           handled, track, loops, crashedAt, handlers, regLog, lifecycle, services, server,
           legacyHub, client >>

limVars    == << rl, allowed >>
auxVars    == << legacyHub, client >>
extVars    == << handlers, regLog, lifecycle, server, auxVars >>
\* The state of the connection fan-out layer.
wsVars     == << impl, hasAck, now, conn, hub, presence, presExp, ackStore, queue,
                 inflight, retry, nSends, calls, last, sent, swept, rl, allowed,
                 handled, track, loops, crashedAt, handlers, regLog >>
\* What the connection, sender and consumer actions leave alone.
setVars    == << impl, hasAck, track, limVars, extVars, services >>
cfgVars    == << setVars, loops, crashedAt >>
regVars    == << presence, presExp >>
\* What the steps of the older Hub leave alone, and the steps of the broker client.
nonRegVars == << impl, hasAck, now, conn, hub, ackStore, queue, inflight, retry, nSends,
                 calls, last, sent, swept, rl, allowed, handled, track, loops, crashedAt,
                 handlers, regLog, lifecycle, services, server >>
nonClientVars == << wsVars, lifecycle, services, server, legacyHub >>
brokerVars == << queue, inflight >>

(***************************************************************************)
(* Wire format.  An Envelope is a record; its JSON encoding keeps the set  *)
(* of members json.Marshal writes (omitempty drops zero values) and        *)
(* decoding fills the members that are missing with zero values.           *)
(***************************************************************************)
Envelope(uid, id, ra, ex) ==
    [UserID |-> uid, Type |-> "note", ID |-> id, RequiresAck |-> ra, ExpiresAt |-> ex]

ZeroEnvelope == [UserID |-> NoUser, Type |-> "", ID |-> NoID, RequiresAck |-> FALSE, ExpiresAt |-> 0]

Marshal(e) ==
    [kind    |-> "object",
     members |-> {"type", "payload"}
                 \cup (IF e.UserID # NoUser THEN {"user_id"} ELSE {})
                 \cup (IF e.ID # NoID THEN {"id"} ELSE {})
                 \cup (IF e.RequiresAck THEN {"requiresAck"} ELSE {})
                 \cup (IF e.ExpiresAt # 0 THEN {"expiresAt"} ELSE {}),
     val     |-> e]

CanUnmarshal(data) == data.kind = "object"

Unmarshal(data) ==
    [UserID      |-> IF "user_id" \in data.members THEN data.val.UserID ELSE ZeroEnvelope.UserID,
     Type        |-> IF "type" \in data.members THEN data.val.Type ELSE ZeroEnvelope.Type,
     ID          |-> IF "id" \in data.members THEN data.val.ID ELSE ZeroEnvelope.ID,
     RequiresAck |-> IF "requiresAck" \in data.members THEN data.val.RequiresAck
                     ELSE ZeroEnvelope.RequiresAck,
     ExpiresAt   |-> IF "expiresAt" \in data.members THEN data.val.ExpiresAt
                     ELSE ZeroEnvelope.ExpiresAt]

(***************************************************************************)
(* Presence registry (Redis set per user).                                 *)
(***************************************************************************)
MarkOnline(pres, u, p) == [pres EXCEPT ![u] = @ \cup {p}]

MarkOnlineExp(exp, u) == [exp EXCEPT ![u] = IF PresTTL > 0 THEN now + PresTTL ELSE @]

MarkOffline(pres, u, p) == [pres EXCEPT ![u] = @ \ {p}]

PresenceRegistryAdd(pres, u, p) == [pres EXCEPT ![u] = @ \cup {p}]

PresenceRegistryRemove(pres, u, p) == [pres EXCEPT ![u] = @ \ {p}]

\* Redis drops a set key, and with it the key's expiry, when its last member goes.
KeyExp(pres, exp) == [u \in Users |-> IF pres[u] = {} THEN NoExp ELSE exp[u]]

(***************************************************************************)
(* Hub: the per-pod map userID -> connections.                             *)
(***************************************************************************)
HubAdd(h, p, u, c) == [h EXCEPT ![p][u] = @ \cup {c}]

HubRemove(h, p, u, c) == [h EXCEPT ![p][u] = @ \ {c}]

\* Non-blocking enqueue onto the outbound channel of every connection of u on p.
HubSendLocal(cn, h, p, u, data) ==
    [c \in Conns |->
        IF u \in Users /\ c \in h[p][u] /\ Len(cn[c].send) < SendCap
        THEN [cn[c] EXCEPT !.send = Append(@, data)]
        ELSE cn[c]]

\* What Hub.SendLocal returns: nil, whether or not a connection took the data.
HubSendLocalErr(cn, h, p, u, data) == "nil"

(***************************************************************************)
(* History of the sends that asked for an acknowledgment.  sent maps       *)
(* <<userID, msgID>> to what became of the latest such send: enq, the      *)
(* message was put on an outbound channel of a connection of the user;     *)
(* held, the user had a fully registered connection at every moment since  *)
(* the send; acked, the user acknowledged it; lapsed, its record ran out.  *)
(***************************************************************************)
\* What a step appended to the outbound channel of connection c.
Grown(cn2, c) ==
    IF Len(cn2[c].send) > Len(conn[c].send)
    THEN SubSeq(cn2[c].send, Len(conn[c].send) + 1, Len(cn2[c].send))
    ELSE << >>

Noted(cn2) ==
    [k \in DOMAIN sent |->
        IF sent[k].lapsed THEN sent[k]
        ELSE [sent[k] EXCEPT
                !.enq = @ \/ \E c \in Conns :
                               /\ cn2[c].user = k[1]
                               /\ \E i \in 1..Len(Grown(cn2, c)) : Grown(cn2, c)[i] = sent[k].data,
                !.held = @ /\ \E c \in Conns : cn2[c].st = "open" /\ cn2[c].user = k[1]]]

(***************************************************************************)
(* Connection lifecycle (WebSocket.RegisterConn, readLoop, writeLoop).     *)
(***************************************************************************)
\* The two loops of a connection: rd is "read" while readLoop waits for a
\* frame, "blocked" while a handler it called waits on the outbound channel,
\* "done" after it returned; wr is "run" while writeLoop serves the channel,
\* "dead" after a write error made it return, "done" after the close signal.
NoLoops == [rd |-> "none", wr |-> "none"]

FreshConn == [st |-> "none", user |-> NoUser, pod |-> "", send |-> << >>]

ClosedConn == [st |-> "closed", user |-> NoUser, pod |-> "", send |-> << >>]

\* A slot is free when its connection is gone and the sweep it started has run.
Free(c) == conn[c].st \in {"none", "closed"} /\ \A r \in retry : r.c # c

\* Mutant: the Conn is built and not added to the Hub.
RegisterConnAddSkipsHub(c, u, p) ==
    /\ crashedAt[p] = NoExp
    /\ Free(c)
    /\ \A d \in 1..(c - 1) : ~Free(d)
    /\ conn' = [conn EXCEPT ![c] = [st |-> "added", user |-> u, pod |-> p, send |-> << >>]]
    /\ swept' = NoSweep
    /\ handled' = NoFrame
    /\ calls' = << >>
    /\ last' = NoCall
    /\ UNCHANGED << cfgVars, now, hub, regVars, ackStore, brokerVars, retry, nSends, sent >>

\* RegisterConn up to Hub.Add: the upgrade succeeded, the Conn is built and added.
RegisterConnAdd(c, u, p) ==
    /\ crashedAt[p] = NoExp
    /\ Free(c)
    /\ \A d \in 1..(c - 1) : ~Free(d)          \* slots are taken in order
    /\ conn' = [conn EXCEPT ![c] = [st |-> "added", user |-> u, pod |-> p, send |-> << >>]]
    /\ hub' = HubAdd(hub, p, u, c)
    /\ swept' = NoSweep
    /\ handled' = NoFrame
    /\ calls' = << >>
    /\ last' = NoCall
    /\ UNCHANGED << cfgVars, now, regVars, ackStore, brokerVars, retry, nSends, sent >>

\* What MarkOnline (and PresenceRegistry.Add) returns: the error of SADD; the
\* result of EXPIRE is discarded.
MarkOnlineErr(saddOK, expireOK) == IF saddOK THEN "nil" ELSE "error"

\* What MarkOffline (and PresenceRegistry.Remove) returns: the error of SREM.
MarkOfflineErr(sremOK) == IF sremOK THEN "nil" ELSE "error"

\* A storage call of the latest step that failed, and what its operation returned.
FailedCall(op, err) == [type |-> op, err |-> err]

\* RegisterConn from MarkOnline on: presence, the retry sweep, the two loops.
\* saddOK, expireOK: whether the registry's two storage calls succeed; the
\* error MarkOnline returns only decides whether "user connected" is logged.
RegisterConnOnlineOn(c, saddOK, expireOK) ==
    /\ conn[c].st = "added"
    /\ conn' = [conn EXCEPT ![c].st = "open"]
    /\ IF ~saddOK
       THEN UNCHANGED regVars
       ELSE IF impl = "legacy"
       THEN /\ presence' = PresenceRegistryAdd(presence, conn[c].user, conn[c].pod)
            /\ presExp' = presExp
       ELSE /\ presence' = MarkOnline(presence, conn[c].user, conn[c].pod)
            /\ presExp' = IF expireOK THEN MarkOnlineExp(presExp, conn[c].user) ELSE presExp
    /\ retry' = IF hasAck
                THEN retry \cup {[c |-> c, user |-> conn[c].user, pod |-> conn[c].pod]}
                ELSE retry
    /\ loops' = [loops EXCEPT ![c] = [rd |-> "read", wr |-> "run"]]
    /\ calls' = << >>
    /\ last' = NoCall
    /\ swept' = NoSweep
    /\ handled' = IF saddOK /\ (expireOK \/ impl = "legacy") THEN NoFrame
                  ELSE FailedCall("MarkOnline", MarkOnlineErr(saddOK, expireOK))
    /\ UNCHANGED << setVars, crashedAt, now, hub, ackStore, brokerVars, nSends, sent >>

RegisterConnOnline(c) == RegisterConnOnlineOn(c, TRUE, TRUE)

\* Mutant: the deferred teardown leaves the connection in the Hub.
readLoopExitKeepsConn(c) ==
    /\ conn[c].st = "open"
    /\ loops[c].rd = "read"
    /\ conn' = [conn EXCEPT ![c].st = "closing"]
    /\ hub' = hub
    /\ loops' = [loops EXCEPT ![c] = [rd |-> "done",
                                       wr |-> IF @.wr = "run" THEN "done" ELSE @.wr]]
    /\ calls' = << >>
    /\ last' = NoCall
    /\ sent' = Noted(conn')
    /\ swept' = NoSweep
    /\ handled' = NoFrame
    /\ UNCHANGED << setVars, crashedAt, now, regVars, ackStore, brokerVars, retry, nSends >>

\* readLoop ends (read error or deadline): the deferred teardown up to Hub.Remove.
readLoopExit(c) ==
    /\ conn[c].st = "open"
    /\ loops[c].rd = "read"
    /\ conn' = [conn EXCEPT ![c].st = "closing"]
    /\ hub' = HubRemove(hub, conn[c].pod, conn[c].user, c)
    /\ loops' = [loops EXCEPT ![c] = [rd |-> "done",
                                       wr |-> IF @.wr = "run" THEN "done" ELSE @.wr]]
    /\ calls' = << >>
    /\ last' = NoCall
    /\ sent' = Noted(conn')
    /\ swept' = NoSweep
    /\ handled' = NoFrame
    /\ UNCHANGED << setVars, crashedAt, now, regVars, ackStore, brokerVars, retry, nSends >>

\* The rest of the deferred teardown: Registry.MarkOffline, whose error is
\* discarded.  sremOK: whether the storage call succeeds.
readLoopMarkOfflineOn(c, sremOK) ==
    /\ conn[c].st = "closing"
    /\ conn' = [conn EXCEPT ![c] = ClosedConn]
    /\ LET pres == IF ~sremOK THEN presence
                   ELSE IF impl = "legacy"
                   THEN PresenceRegistryRemove(presence, conn[c].user, conn[c].pod)
                   ELSE MarkOffline(presence, conn[c].user, conn[c].pod)
       IN /\ presence' = pres
          /\ presExp' = KeyExp(pres, presExp)
    /\ loops' = [loops EXCEPT ![c] = NoLoops]
    /\ calls' = << >>
    /\ last' = NoCall
    /\ swept' = NoSweep
    /\ handled' = IF sremOK THEN NoFrame
                  ELSE FailedCall("MarkOffline", MarkOfflineErr(sremOK))
    /\ UNCHANGED << setVars, crashedAt, now, hub, ackStore, brokerVars, retry, nSends, sent >>

readLoopMarkOffline(c) == readLoopMarkOfflineOn(c, TRUE)

\* PresenceRegistry.Remove of the older Hub's Unregister, command by command:
\* SREM, then SCARD, then DEL of the key if SCARD counted no member.  Other
\* pods' commands may come between them.
PresenceRegistryRemoveSrem(c) ==
    /\ impl = "legacy"
    /\ conn[c].st = "closing"
    /\ conn' = [conn EXCEPT ![c].st = "srem"]
    /\ presence' = [presence EXCEPT ![conn[c].user] = @ \ {conn[c].pod}]
    /\ presExp' = KeyExp(presence', presExp)
    /\ calls' = << >>
    /\ last' = NoCall
    /\ swept' = NoSweep
    /\ handled' = NoFrame
    /\ UNCHANGED << cfgVars, now, hub, ackStore, brokerVars, retry, nSends, sent >>

PresenceRegistryRemoveScard(c) ==
    /\ impl = "legacy"
    /\ conn[c].st = "srem"
    /\ conn' = [conn EXCEPT ![c] = IF presence[conn[c].user] = {}
                                   THEN [@ EXCEPT !.st = "del"]
                                   ELSE ClosedConn]
    /\ loops' = [loops EXCEPT ![c] = IF presence[conn[c].user] = {} THEN @ ELSE NoLoops]
    /\ calls' = << >>
    /\ last' = NoCall
    /\ swept' = NoSweep
    /\ handled' = NoFrame
    /\ UNCHANGED << setVars, crashedAt, now, hub, regVars, ackStore, brokerVars, retry, nSends,
                    sent >>

PresenceRegistryRemoveDel(c) ==
    /\ impl = "legacy"
    /\ conn[c].st = "del"
    /\ conn' = [conn EXCEPT ![c] = ClosedConn]
    /\ loops' = [loops EXCEPT ![c] = NoLoops]
    /\ presence' = [presence EXCEPT ![conn[c].user] = {}]
    /\ presExp' = KeyExp(presence', presExp)
    /\ calls' = << >>
    /\ last' = NoCall
    /\ swept' = NoSweep
    /\ handled' = NoFrame
    /\ UNCHANGED << setVars, crashedAt, now, hub, ackStore, brokerVars, retry, nSends, sent >>

\* writeLoop takes the next message of the outbound channel and writes it.
writeLoop(c) ==
    /\ conn[c].st = "open"
    /\ loops[c].wr = "run"
    /\ conn[c].send # << >>
    /\ conn' = [conn EXCEPT ![c].send = Tail(@)]
    /\ calls' = << >>
    /\ last' = NoCall
    /\ swept' = NoSweep
    /\ handled' = NoFrame
    /\ UNCHANGED << cfgVars, now, hub, regVars, ackStore, brokerVars, retry, nSends, sent >>

(***************************************************************************)
(* Broker.  Each pod's consumer queue is bound to the pod's own routing    *)
(* key; a publish reaches the queues bound to the key it names.  A broker  *)
(* message carries, beside its body, the user it was meant for (history).  *)
(***************************************************************************)
\* Mutant: the routing key leaves out the pod identifier.
getKeyShared(pod) == << "ws", "send", "*" >>

getKey(pod) == << "ws", "send", pod >>

Route(qs, key, m) == [q \in Pods |-> IF getKey(q) = key THEN Append(qs[q], m) ELSE qs[q]]

\* rabbitmq.Client.Publish JSON-encodes what it is given: a []byte becomes a
\* base64 string, which runSubscriber decodes into the handler's []byte again.
ClientBody(data) == [kind |-> "string", b64 |-> data]

\* The older Sender wraps the payload into its own two-member envelope.
LegacyEnvelope(u, payload) ==
    [kind |-> "object", members |-> {"user_id", "payload"}, val |-> [UserID |-> u, Payload |-> payload]]

(***************************************************************************)
(* Sender.SendToUser.  st is the call's running state: the connections and *)
(* queues as changed so far, the attempts made, the Hub.SendLocal calls    *)
(* made and the value returned.  pods is the registry's answer in the      *)
(* order it came, F the pods to which a publish fails.                     *)
(***************************************************************************)
Attempt(pod, kind, key, ok) == [pod |-> pod, kind |-> kind, key |-> key, ok |-> ok]

Begin == [conn |-> conn, queue |-> queue, attempts |-> << >>, calls |-> << >>, ret |-> "nil"]

\* Mutant: the local branch hands the message to the Hub twice.
LocalTwice(st, p, u, data) ==
    [st EXCEPT !.conn = HubSendLocal(HubSendLocal(st.conn, hub, p, u, data), hub, p, u, data),
               !.calls = Append(@, [pod |-> p, user |-> u, data |-> data]),
               !.attempts = Append(@, Attempt(p, "local", << >>, TRUE))]

Local(st, p, u, data) ==
    [st EXCEPT !.conn = HubSendLocal(st.conn, hub, p, u, data),
               !.calls = Append(@, [pod |-> p, user |-> u, data |-> data]),
               !.attempts = Append(@, Attempt(p, "local", << >>, TRUE))]

Published(st, pod, key, body, u, data) ==
    [st EXCEPT !.queue = Route(st.queue, key, [body |-> body, to |-> u, data |-> data]),
               !.attempts = Append(@, Attempt(pod, "publish", key, TRUE))]

PublishFailed(st, pod, key, ret) ==
    [st EXCEPT !.attempts = Append(@, Attempt(pod, "publish", key, FALSE)), !.ret = ret]

RECURSIVE RMQSenderLoop(_, _, _, _, _, _)
RMQSenderLoop(st, p, u, data, pods, F) ==
    IF pods = << >> THEN st
    ELSE LET pod == Head(pods) IN
         IF pod = p THEN RMQSenderLoop(Local(st, p, u, data), p, u, data, Tail(pods), F)
         ELSE IF pod \in F THEN PublishFailed(st, pod, getKey(pod), "publish error")
         ELSE RMQSenderLoop(Published(st, pod, getKey(pod), ClientBody(data), u, data),
                            p, u, data, Tail(pods), F)

\* Mutant: an empty presence set is treated like a failed lookup.
RMQSenderSendToUserStrict(p, u, data, regOK, pods, F) ==
    IF ~regOK THEN [Begin EXCEPT !.ret = "registry error"]
    ELSE IF Len(pods) = 0 THEN [Begin EXCEPT !.ret = "no active pods"]
    ELSE RMQSenderLoop(Begin, p, u, data, pods, F)

RMQSenderSendToUser(p, u, data, regOK, pods, F) ==
    IF ~regOK THEN [Begin EXCEPT !.ret = "registry error"]
    ELSE RMQSenderLoop(Begin, p, u, data, pods, F)

RECURSIVE MQSenderLoop(_, _, _, _, _, _)
MQSenderLoop(st, p, u, data, pods, F) ==
    IF pods = << >> THEN st
    ELSE LET pod == Head(pods) IN
         IF pod = p THEN MQSenderLoop(Local(st, p, u, data), p, u, data, Tail(pods), F)
         ELSE IF pod \in F THEN PublishFailed(st, pod, getKey(pod), "publish error")
         ELSE MQSenderLoop(Published(st, pod, getKey(pod), data, u, data), p, u, data, Tail(pods), F)

MQSenderSendToUser(p, u, data, regOK, pods, F) ==
    IF ~regOK THEN [Begin EXCEPT !.ret = "registry error"]
    ELSE MQSenderLoop(Begin, p, u, data, pods, F)

RECURSIVE LegacySenderLoop(_, _, _, _, _)
LegacySenderLoop(st, u, payload, pods, F) ==
    IF pods = << >> THEN st
    ELSE LET pod == Head(pods) IN
         LegacySenderLoop(IF pod \in F THEN PublishFailed(st, pod, getKey(pod), st.ret)
                          ELSE Published(st, pod, getKey(pod),
                                         ClientBody(LegacyEnvelope(u, payload)), u, payload),
                          u, payload, Tail(pods), F)

LegacySenderSendToUser(u, payload, regOK, pods, F) ==
    IF ~regOK \/ Len(pods) = 0 THEN [Begin EXCEPT !.ret = "no active pods"]
    ELSE LegacySenderLoop(Begin, u, payload, pods, F)

SenderSendToUser(p, u, data, regOK, pods, F) ==
    CASE impl = "rmq" -> RMQSenderSendToUser(p, u, data, regOK, pods, F)
      [] impl = "mq"  -> MQSenderSendToUser(p, u, data, regOK, pods, F)
      [] OTHER        -> LegacySenderSendToUser(u, data, regOK, pods, F)

\* The orders in which SMEMBERS may list a set.
RECURSIVE Orders(_)
Orders(S) ==
    IF S = {} THEN { << >> }
    ELSE UNION { { << x >> \o o : o \in Orders(S \ {x}) } : x \in S }

\* GetUserPods: the members of the user's set, or a storage error (regOK false).
GetUserPods(u) == Orders(presence[u])

\* The publish failures that make a difference to a call of pod p for user u.
Failing(p, u, regOK) ==
    IF ~regOK THEN { {} }
    ELSE IF impl = "legacy" THEN SUBSET presence[u]
    ELSE SUBSET (presence[u] \ {p})

CallRecord(p, u, data, regOK, pods, st) ==
    [called |-> TRUE, pod |-> p, user |-> u, data |-> data, regOK |-> regOK,
     pods |-> IF regOK THEN pods ELSE << >>, attempts |-> st.attempts, ret |-> st.ret]

\* A caller hands msg to the pod's Sender.
SendToUser(p, u, data, regOK, F) ==
    /\ \E pods \in GetUserPods(u) :
         LET st == SenderSendToUser(p, u, data, regOK, pods, F) IN
         /\ conn' = st.conn
         /\ queue' = st.queue
         /\ calls' = st.calls
         /\ last' = CallRecord(p, u, data, regOK, pods, st)
    /\ nSends' = nSends + 1
    /\ sent' = Noted(conn')
    /\ swept' = NoSweep
    /\ handled' = NoFrame
    /\ UNCHANGED << cfgVars, now, hub, regVars, ackStore, inflight, retry >>

(***************************************************************************)
(* The pod's consumer of its own topic.                                    *)
(***************************************************************************)
\* runSubscriber takes the next delivery; it is consumed with auto-ack off.
runSubscriberReceive(q) ==
    /\ impl = "rmq"
    /\ inflight[q] = None
    /\ queue[q] # << >>
    /\ inflight' = [inflight EXCEPT ![q] = [msg |-> Head(queue[q]), acked |-> FALSE]]
    /\ queue' = [queue EXCEPT ![q] = Tail(@)]
    /\ calls' = << >>
    /\ last' = NoCall
    /\ swept' = NoSweep
    /\ handled' = NoFrame
    /\ UNCHANGED << cfgVars, now, conn, hub, regVars, ackStore, retry, nSends, sent >>

\* runSubscriber decodes the body and calls NewRMQSender's handler, which
\* decodes the Envelope, delivers through the Hub and then acknowledges.
runSubscriberHandle(q) ==
    /\ impl = "rmq"
    /\ inflight[q] # None
    /\ LET body == inflight[q].msg.body IN
       IF body.kind # "string"
       THEN \* not a JSON string: Nack without requeue
            /\ UNCHANGED << conn, queue >>
            /\ calls' = << >>
       ELSE IF ~CanUnmarshal(body.b64)
       THEN \* the handler returns an error: Nack with requeue
            /\ queue' = [queue EXCEPT ![q] = << inflight[q].msg >> \o @]
            /\ conn' = conn
            /\ calls' = << >>
       ELSE /\ conn' = HubSendLocal(conn, hub, q, Unmarshal(body.b64).UserID, body.b64)
            /\ calls' = << [pod |-> q, user |-> Unmarshal(body.b64).UserID, data |-> body.b64] >>
            /\ queue' = IF HubSendLocalErr(conn, hub, q, Unmarshal(body.b64).UserID, body.b64) = "nil"
                        THEN queue                                         \* msg.Ack
                        ELSE [queue EXCEPT ![q] = << inflight[q].msg >> \o @]  \* Nack, requeue
    /\ inflight' = [inflight EXCEPT ![q] = None]
    /\ last' = NoCall
    /\ sent' = Noted(conn')
    /\ swept' = NoSweep
    /\ handled' = NoFrame
    /\ UNCHANGED << cfgVars, now, hub, regVars, ackStore, retry, nSends >>

\* StartConsumer's goroutine takes the next delivery of a channel that was
\* opened with auto-ack: the broker has settled it by the time it arrives.
StartConsumerReceive(q) ==
    /\ impl = "mq"
    /\ inflight[q] = None
    /\ queue[q] # << >>
    /\ inflight' = [inflight EXCEPT ![q] = [msg |-> Head(queue[q]), acked |-> TRUE]]
    /\ queue' = [queue EXCEPT ![q] = Tail(@)]
    /\ calls' = << >>
    /\ last' = NoCall
    /\ swept' = NoSweep
    /\ handled' = NoFrame
    /\ UNCHANGED << cfgVars, now, conn, hub, regVars, ackStore, retry, nSends, sent >>

\* StartConsumer's goroutine decodes the Envelope and delivers through the Hub.
StartConsumerHandle(q) ==
    /\ impl = "mq"
    /\ inflight[q] # None
    /\ LET body == inflight[q].msg.body IN
       IF ~CanUnmarshal(body)
       THEN /\ conn' = conn
            /\ calls' = << >>
       ELSE /\ conn' = HubSendLocal(conn, hub, q, Unmarshal(body).UserID, body)
            /\ calls' = << [pod |-> q, user |-> Unmarshal(body).UserID, data |-> body] >>
    /\ inflight' = [inflight EXCEPT ![q] = None]
    /\ last' = NoCall
    /\ sent' = Noted(conn')
    /\ swept' = NoSweep
    /\ handled' = NoFrame
    /\ UNCHANGED << cfgVars, now, hub, regVars, ackStore, queue, retry, nSends >>

(***************************************************************************)
(* AckStore (Redis keys with a time to live) and the operations on it.     *)
(***************************************************************************)
\* A string as the sequence of its parts between the colons.
Segs(s) ==
    IF s = "u1:x" THEN << "u1", "x" >>
    ELSE IF s = "x:m1" THEN << "x", "m1" >>
    ELSE << s >>

\* <prefix>:<userID>:<msgID>, as the sequence of its parts between the colons.
AckKey(u, id) == << "ws:ack" >> \o Segs(u) \o Segs(id)

\* SETEX key ttl msg
AckStoreSave(store, u, id, msg) ==
    [k \in DOMAIN store \cup {AckKey(u, id)} |->
        IF k = AckKey(u, id) THEN [data |-> msg, exp |-> now + AckTTL] ELSE store[k]]

Del(store, key) == [k \in DOMAIN store \ {key} |-> store[k]]

\* KEYS <prefix>:<userID>:*
Keys(store, u) ==
    LET pre == << "ws:ack" >> \o Segs(u) IN
    {k \in DOMAIN store : Len(k) > Len(pre) /\ SubSeq(k, 1, Len(pre)) = pre}

\* Mutant: the acknowledged key is built from the frame's user, not the connection's.
AckHandlerDelAnonymous(store, u, id) == Del(store, AckKey(NoUser, id))

\* Mutant: the acknowledgment clears everything stored for the user.
AckHandlerDelUser(store, u, id) ==
    [k \in DOMAIN store \ (Keys(store, u) \cup {AckKey(u, id)}) |-> store[k]]

\* AckStore.AckHandler: DEL <prefix>:<conn.UserID>:<body.ID>
AckHandlerDel(store, u, id) == Del(store, AckKey(u, id))

\* What AckStore.AckHandler returns for a payload that parses: nil, whether DEL
\* removed a key, found none or failed.
AckHandlerErr(store, u, id) == "nil"

\* The unacknowledged, unlapsed, unexpired sends to u, by the history.
Due(u) ==
    {k[2] : k \in {k \in DOMAIN sent :
                     /\ k[1] = u
                     /\ ~sent[k].acked
                     /\ ~sent[k].lapsed
                     /\ ~(Unmarshal(sent[k].data).ExpiresAt > 0
                          /\ now > Unmarshal(sent[k].data).ExpiresAt)}}

\* Nothing is on its way: no broker message queued or held, no sweep pending.
Idle ==
    /\ \A q \in Pods : queue[q] = << >> /\ inflight[q] = None
    /\ retry = {}

\* Mutant: every envelope that has an ID is saved.
RequiresSaveAny(e) == hasAck /\ e.ID # NoID

\* WebSocket.SendToUser: which envelopes are saved before they are sent.
RequiresSave(e) == e.RequiresAck /\ hasAck /\ e.ID # NoID

\* What AckStore.Save returns: it has no result; a failed SETEX is logged.
AckStoreSaveErr(setexOK) == "none"

\* WebSocket.SendToUser: encode, save for acknowledgment, hand to the Sender.
\* setexOK: whether the SETEX of AckStore.Save succeeds.
WebSocketSendToUserOn(p, u, e, regOK, F, setexOK) ==
    LET msg == Marshal(e)
        save == RequiresSave(e) /\ setexOK
    IN
    /\ ackStore' = IF save THEN AckStoreSave(ackStore, u, e.ID, msg) ELSE ackStore
    /\ \E pods \in GetUserPods(u) :
         LET st == SenderSendToUser(p, u, msg, regOK, pods, F) IN
         /\ conn' = st.conn
         /\ queue' = st.queue
         /\ calls' = st.calls
         /\ last' = CallRecord(p, u, msg, regOK, pods, st)
    /\ sent' = IF save /\ track
               THEN [k \in DOMAIN sent \cup {<< u, e.ID >>} |->
                       IF k = << u, e.ID >>
                       THEN [data    |-> msg,
                             offline |-> \A c \in Conns : conn[c].user # u,
                             enq     |-> \E c \in Conns :
                                            /\ conn[c].user = u
                                            /\ Grown(conn', c) # << >>,
                             held    |-> \E c \in Conns : conn[c].st = "open" /\ conn[c].user = u,
                             stays   |-> e.ExpiresAt = 0 \/ e.ExpiresAt > now + AckTTL,
                             acked   |-> FALSE,
                             lapsed  |-> FALSE,
                             idle    |-> FALSE]
                       ELSE Noted(conn')[k]]
               ELSE Noted(conn')
    /\ nSends' = nSends + 1
    /\ swept' = NoSweep
    /\ handled' = IF RequiresSave(e) /\ ~setexOK
                  THEN FailedCall("Save", AckStoreSaveErr(setexOK))
                  ELSE NoFrame
    /\ UNCHANGED << cfgVars, now, hub, regVars, inflight, retry >>

WebSocketSendToUser(p, u, e, regOK, F) == WebSocketSendToUserOn(p, u, e, regOK, F, TRUE)

\* readLoop reads an "ack" frame and the Router hands it to AckStore.AckHandler.
\* delOK: whether the DEL of the handler succeeds.
readLoopAckOn(c, id, delOK) ==
    /\ hasAck
    /\ handlers["ack"] = "AckHandler"
    /\ conn[c].st = "open"
    /\ loops[c].rd = "read"
    /\ ackStore' = IF delOK THEN AckHandlerDel(ackStore, conn[c].user, id) ELSE ackStore
    /\ sent' = [k \in DOMAIN sent |->
                  IF delOK /\ k = << conn[c].user, id >>
                  THEN [sent[k] EXCEPT !.acked = TRUE] ELSE sent[k]]
    /\ calls' = << >>
    /\ last' = NoCall
    /\ swept' = NoSweep
    /\ handled' = [type  |-> "ack",
                    c     |-> c,
                    user  |-> conn[c].user,
                    id    |-> id,
                    had   |-> AckKey(conn[c].user, id) \in DOMAIN ackStore,
                    again |-> \E k \in DOMAIN sent :
                                 AckKey(k[1], k[2]) = AckKey(conn[c].user, id) /\ sent[k].acked,
                    delOK |-> delOK,
                    err   |-> AckHandlerErr(ackStore, conn[c].user, id)]
    /\ UNCHANGED << cfgVars, now, conn, hub, regVars, brokerVars, retry, nSends >>

readLoopAck(c, id) == readLoopAckOn(c, id, TRUE)

\* Mutant: the sweep skips an expired entry and leaves it in the store.
RECURSIVE retryUnackedLoopKeepsExpired(_, _, _, _)
retryUnackedLoopKeepsExpired(st, p, u, keys) ==
    IF keys = << >> THEN st
    ELSE LET key == Head(keys)
             data == st.store[key].data
             env == Unmarshal(data)
         IN
         IF ~CanUnmarshal(data) THEN retryUnackedLoopKeepsExpired(st, p, u, Tail(keys))
         ELSE IF env.ExpiresAt > 0 /\ now > env.ExpiresAt
         THEN retryUnackedLoopKeepsExpired(st, p, u, Tail(keys))
         ELSE retryUnackedLoopKeepsExpired(
                  [st EXCEPT !.conn = HubSendLocal(st.conn, hub, p, u, data),
                             !.calls = Append(@, [pod |-> p, user |-> u, data |-> data])],
                  p, u, Tail(keys))

\* The loop of retryUnacked over the keys in the order KEYS listed them.
RECURSIVE retryUnackedLoop(_, _, _, _)
retryUnackedLoop(st, p, u, keys) ==
    IF keys = << >> THEN st
    ELSE LET key == Head(keys)
             data == st.store[key].data
             env == Unmarshal(data)
         IN
         IF ~CanUnmarshal(data) THEN retryUnackedLoop(st, p, u, Tail(keys))
         ELSE IF env.ExpiresAt > 0 /\ now > env.ExpiresAt
         THEN retryUnackedLoop([st EXCEPT !.store = Del(@, key)], p, u, Tail(keys))
         ELSE retryUnackedLoop(
                  [st EXCEPT !.conn = HubSendLocal(st.conn, hub, p, u, data),
                             !.calls = Append(@, [pod |-> p, user |-> u, data |-> data])],
                  p, u, Tail(keys))

\* The retry sweep a registration started, run for the user on the pod.
retryUnacked(r) ==
    /\ r \in retry
    /\ \E keys \in Orders(Keys(ackStore, r.user)) :
         LET st == retryUnackedLoop([conn |-> conn, store |-> ackStore, calls |-> << >>],
                                    r.pod, r.user, keys)
         IN
         /\ conn' = st.conn
         /\ ackStore' = st.store
         /\ calls' = st.calls
         /\ swept' = [done  |-> TRUE,
                       c     |-> r.c,
                       inHub |-> r.c \in hub[r.pod][r.user],
                       room  |-> SendCap - Len(conn[r.c].send),
                       due   |-> Due(r.user),
                       dropped |-> DOMAIN ackStore \ DOMAIN st.store,
                       got   |-> [i \in 1..Len(Grown(st.conn, r.c)) |->
                                    Unmarshal(Grown(st.conn, r.c)[i]).ID]]
    /\ retry' = retry \ {r}
    /\ sent' = Noted(conn')
    /\ last' = NoCall
    /\ handled' = NoFrame
    /\ UNCHANGED << cfgVars, now, hub, regVars, brokerVars, nSends >>

\* The reply of the restore handler when KEYS lists nothing.
NoMessage == Marshal([ZeroEnvelope EXCEPT !.Type = "restore"])

\* Mutant: the request's since is not looked at.
RECURSIVE restoreHandlerLoopAnySince(_, _, _, _, _)
restoreHandlerLoopAnySince(st, p, u, since, keys) ==
    IF keys = << >> THEN st
    ELSE LET data == ackStore[Head(keys)].data
             env == Unmarshal(data)
         IN
         IF ~CanUnmarshal(data) THEN restoreHandlerLoopAnySince(st, p, u, since, Tail(keys))
         ELSE IF env.ExpiresAt > 0 /\ env.ExpiresAt < now
         THEN restoreHandlerLoopAnySince(st, p, u, since, Tail(keys))
         ELSE restoreHandlerLoopAnySince(
                  [st EXCEPT !.conn = HubSendLocal(st.conn, hub, p, u, data),
                             !.calls = Append(@, [pod |-> p, user |-> u, data |-> data])],
                  p, u, since, Tail(keys))

\* The loop of restoreHandler over the keys in the order KEYS listed them.
RECURSIVE restoreHandlerLoop(_, _, _, _, _)
restoreHandlerLoop(st, p, u, since, keys) ==
    IF keys = << >> THEN st
    ELSE LET data == ackStore[Head(keys)].data
             env == Unmarshal(data)
         IN
         IF ~CanUnmarshal(data) THEN restoreHandlerLoop(st, p, u, since, Tail(keys))
         ELSE IF env.ExpiresAt > 0 /\ env.ExpiresAt < now
         THEN restoreHandlerLoop(st, p, u, since, Tail(keys))
         ELSE IF since > 0 /\ env.ExpiresAt > 0 /\ env.ExpiresAt < since
         THEN restoreHandlerLoop(st, p, u, since, Tail(keys))
         ELSE restoreHandlerLoop(
                  [st EXCEPT !.conn = HubSendLocal(st.conn, hub, p, u, data),
                             !.calls = Append(@, [pod |-> p, user |-> u, data |-> data])],
                  p, u, since, Tail(keys))

\* readLoop reads a "restore" frame {since} and the Router hands it to
\* restoreHandler.  keysOK: KEYS succeeds.  The "no message" reply is a
\* blocking channel send: the handler gets past it when the channel has room.
readLoopRestore(c, since, keysOK) ==
    LET u == conn[c].user
        p == conn[c].pod
        start == [conn |-> conn, calls |-> << >>]
    IN
    /\ hasAck
    /\ handlers["restore"] = "restoreHandler"
    /\ conn[c].st = "open"
    /\ loops[c].rd = "read"
    /\ \E keys \in Orders(Keys(ackStore, u)) :
         LET st == IF ~keysOK THEN start
                   ELSE IF keys = << >>
                   THEN [start EXCEPT !.conn[c].send = Append(@, NoMessage)]
                   ELSE restoreHandlerLoop(start, p, u, since, keys)
         IN
         /\ (keysOK /\ keys = << >> => Len(conn[c].send) < SendCap)
         /\ conn' = st.conn
         /\ calls' = st.calls
         /\ handled' = [type   |-> "restore",
                        c      |-> c,
                        user   |-> u,
                        since  |-> since,
                        keysOK |-> keysOK,
                        err    |-> "nil"]
    /\ sent' = Noted(conn')
    /\ last' = NoCall
    /\ swept' = NoSweep
    /\ UNCHANGED << cfgVars, now, hub, regVars, ackStore, brokerVars, retry, nSends >>

\* restoreHandler finds no key and the outbound channel full: its channel
\* send waits, and readLoop with it, until the channel has room.
readLoopRestoreBlock(c) ==
    /\ hasAck
    /\ handlers["restore"] = "restoreHandler"
    /\ conn[c].st = "open"
    /\ loops[c].rd = "read"
    /\ Keys(ackStore, conn[c].user) = {}
    /\ Len(conn[c].send) = SendCap
    /\ loops' = [loops EXCEPT ![c].rd = "blocked"]
    /\ calls' = << >>
    /\ last' = NoCall
    /\ swept' = NoSweep
    /\ handled' = NoFrame
    /\ UNCHANGED << setVars, crashedAt, now, conn, hub, regVars, ackStore, brokerVars, retry,
                    nSends, sent >>

\* The waiting channel send of restoreHandler goes through; readLoop reads on.
readLoopRestoreResume(c) ==
    /\ conn[c].st = "open"
    /\ loops[c].rd = "blocked"
    /\ Len(conn[c].send) < SendCap
    /\ conn' = [conn EXCEPT ![c].send = Append(@, NoMessage)]
    /\ loops' = [loops EXCEPT ![c].rd = "read"]
    /\ calls' = << >>
    /\ last' = NoCall
    /\ sent' = Noted(conn')
    /\ swept' = NoSweep
    /\ handled' = NoFrame
    /\ UNCHANGED << setVars, crashedAt, now, hub, regVars, ackStore, brokerVars, retry, nSends >>

\* writeLoop returns on a write error: of the message it took from the
\* channel (onPing false) or of a ping.  Nothing else happens.
writeLoopFail(c, onPing) ==
    /\ conn[c].st = "open"
    /\ loops[c].wr = "run"
    /\ onPing \/ conn[c].send # << >>
    /\ conn' = [conn EXCEPT ![c].send = IF onPing THEN @ ELSE Tail(@)]
    /\ loops' = [loops EXCEPT ![c].wr = "dead"]
    /\ calls' = << >>
    /\ last' = NoCall
    /\ swept' = NoSweep
    /\ handled' = NoFrame
    /\ UNCHANGED << setVars, crashedAt, now, hub, regVars, ackStore, brokerVars, retry, nSends, sent >>

\* The clock advances, up to max; Redis drops the keys whose time to live
\* has run out.
TickUpTo(max) ==
    /\ now < max
    /\ now' = now + 1
    /\ ackStore' = [k \in {k \in DOMAIN ackStore : ackStore[k].exp > now'} |-> ackStore[k]]
    /\ presence' = [u \in Users |->
                      IF presExp[u] # NoExp /\ presExp[u] <= now' THEN {} ELSE presence[u]]
    /\ presExp' = KeyExp(presence', presExp)
    /\ rl' = [u \in Users |->
                IF rl[u] # None /\ rl[u].exp # NoExp /\ rl[u].exp <= now' THEN None ELSE rl[u]]
    /\ services' = IF services.exp # NoExp /\ services.exp <= now' THEN NoServices ELSE services
    /\ sent' = [k \in DOMAIN sent |->
                  IF /\ ~sent[k].lapsed
                     /\ AckKey(k[1], k[2]) \in DOMAIN ackStore
                     /\ ackStore[AckKey(k[1], k[2])].exp <= now'
                  THEN [sent[k] EXCEPT !.lapsed = TRUE, !.idle = Idle]
                  ELSE sent[k]]
    /\ calls' = << >>
    /\ last' = NoCall
    /\ swept' = NoSweep
    /\ handled' = NoFrame
    /\ UNCHANGED << impl, hasAck, track, loops, crashedAt, allowed, conn, hub, brokerVars,
                    retry, nSends, extVars >>

Tick == TickUpTo(MaxTime)

\* The pong handler of readLoop: the client answered a ping of writeLoop and
\* the read deadline moves on.  The registry is not called.
readLoopPong(c) ==
    /\ conn[c].st = "open"
    /\ loops[c].rd = "read"
    /\ handled' = [type |-> "pong", c |-> c]
    /\ calls' = << >>
    /\ last' = NoCall
    /\ swept' = NoSweep
    /\ UNCHANGED << cfgVars, now, conn, hub, regVars, ackStore, brokerVars, retry, nSends,
                    sent >>

\* The process of pod p dies: its connections, its Hub and its goroutines
\* are gone, no teardown runs, and the broker takes back the message the
\* pod's consumer held.  The registry keeps what it has.
PodCrash(p) ==
    /\ crashedAt[p] = NoExp
    /\ crashedAt' = [crashedAt EXCEPT ![p] = now]
    /\ conn' = [c \in Conns |->
                  IF conn[c].pod = p /\ conn[c].st \notin {"none", "closed"}
                  THEN ClosedConn ELSE conn[c]]
    /\ loops' = [c \in Conns |-> IF conn[c].pod = p THEN NoLoops ELSE loops[c]]
    /\ hub' = [hub EXCEPT ![p] = [u \in Users |-> {}]]
    /\ retry' = {r \in retry : r.pod # p}
    /\ queue' = [queue EXCEPT ![p] = IF inflight[p] = None \/ inflight[p].acked
                                      THEN @
                                      ELSE << inflight[p].msg >> \o @]
    /\ inflight' = [inflight EXCEPT ![p] = None]
    /\ sent' = Noted(conn')
    /\ calls' = << >>
    /\ last' = NoCall
    /\ swept' = NoSweep
    /\ handled' = NoFrame
    /\ UNCHANGED << setVars, now, regVars, ackStore, nSends >>

(***************************************************************************)
(* RedisRateLimiter: a counter per user that Redis drops when its window   *)
(* has run out.                                                            *)
(***************************************************************************)
Count(lim, u) == IF lim[u] = None THEN 0 ELSE lim[u].count

\* Mutant: the call that reaches the limit is refused already.
RedisRateLimiterAllowOffByOne(lim, u, incrOK, expireOK) ==
    IF ~incrOK THEN [lim |-> lim, ret |-> TRUE, failed |-> TRUE]
    ELSE LET count == Count(lim, u) + 1
             exp == IF count = 1
                    THEN (IF expireOK THEN now + RLWindow ELSE NoExp)
                    ELSE lim[u].exp
         IN [lim    |-> [lim EXCEPT ![u] = [count |-> count, exp |-> exp]],
             ret    |-> ~(count >= RLLimit),
             failed |-> count = 1 /\ ~expireOK]

\* Mutant: a failed INCR refuses the message.
RedisRateLimiterAllowFailClosed(lim, u, incrOK, expireOK) ==
    IF ~incrOK THEN [lim |-> lim, ret |-> FALSE, failed |-> TRUE]
    ELSE LET count == Count(lim, u) + 1
             exp == IF count = 1
                    THEN (IF expireOK THEN now + RLWindow ELSE NoExp)
                    ELSE lim[u].exp
         IN [lim    |-> [lim EXCEPT ![u] = [count |-> count, exp |-> exp]],
             ret    |-> ~(count > RLLimit),
             failed |-> count = 1 /\ ~expireOK]

\* RedisRateLimiter.Allow: INCR, EXPIRE on the first count, compare with Limit.
\* incrOK and expireOK say whether the two storage operations succeed; failed
\* says whether an operation that the call performed failed.
RedisRateLimiterAllow(lim, u, incrOK, expireOK) ==
    IF ~incrOK THEN [lim |-> lim, ret |-> TRUE, failed |-> TRUE]
    ELSE LET count == Count(lim, u) + 1
             exp == IF count = 1
                    THEN (IF expireOK THEN now + RLWindow ELSE NoExp)
                    ELSE lim[u].exp
         IN [lim    |-> [lim EXCEPT ![u] = [count |-> count, exp |-> exp]],
             ret    |-> ~(count > RLLimit),
             failed |-> count = 1 /\ ~expireOK]

\* A caller (readLoop, for a frame of user u) asks the limiter.
RateLimiterAllow(u, incrOK, expireOK) ==
    LET r == RedisRateLimiterAllow(rl, u, incrOK, expireOK) IN
    /\ rl' = r.lim
    /\ allowed' = [allowed EXCEPT ![u] =
                     Append(@, [t |-> now, ret |-> r.ret, failed |-> r.failed])]
    /\ calls' = << >>
    /\ last' = NoCall
    /\ swept' = NoSweep
    /\ handled' = NoFrame
    /\ UNCHANGED << impl, hasAck, track, loops, crashedAt, now, conn, hub, regVars,
                    ackStore, brokerVars, retry, nSends, sent, extVars, services >>

\* Mutant: the first registration for a type stays.
RouterRegisterKeepsFirst(hs, t, h) == [hs EXCEPT ![t] = IF @ = NoHandler THEN h ELSE @]

\* Router.Register: the handler of the type is replaced.
RouterRegister(hs, t, h) == [hs EXCEPT ![t] = h]

\* NewWebSocket: a new Router; with an AckStore the two built-in handlers.
NewWebSocketRegistered(a) ==
    IF a THEN << [type |-> "ack", handler |-> "AckHandler"],
                 [type |-> "restore", handler |-> "restoreHandler"] >>
    ELSE << >>

NewWebSocketHandlers(a) ==
    IF a THEN RouterRegister(RouterRegister([t \in MsgTypes |-> NoHandler], "ack", "AckHandler"),
                             "restore", "restoreHandler")
    ELSE [t \in MsgTypes |-> NoHandler]

\* Router.Dispatch for a frame of type t whose handler, if one runs, returns
\* res: the handlers invoked, in order, and the value returned.
RouterDispatch(hs, t, res) ==
    IF hs[t] # NoHandler THEN [invoked |-> << hs[t] >>, err |-> res]
    ELSE [invoked |-> << >>, err |-> "nil"]

\* WebSocket.On: the application registers a handler.  Router.handlers is a
\* plain map, so handlers are registered while no readLoop of the pod runs.
On(t, h) ==
    /\ \A c \in Conns : conn[c].st \in {"none", "closed"}
    /\ handlers' = RouterRegister(handlers, t, h)
    /\ regLog' = Append(regLog, [type |-> t, handler |-> h])
    /\ calls' = << >>
    /\ last' = NoCall
    /\ swept' = NoSweep
    /\ handled' = NoFrame
    /\ UNCHANGED << impl, hasAck, track, limVars, loops, crashedAt, now, conn, hub, regVars,
                    ackStore, brokerVars, retry, nSends, sent, lifecycle, server, services,
                    auxVars >>

\* What becomes of a frame: refused by the limiter, not JSON, of a type
\* without handler, or handled.
FrameKind(ok, f, hs) ==
    IF ~ok THEN "limited"
    ELSE IF ~f.json THEN "malformed"
    ELSE IF hs[f.type] = NoHandler THEN "unregistered"
    ELSE "handler"

\* Mutant: a frame that is not JSON ends the read loop.
readLoopFrameCloses(c, f, incrOK, expireOK) ==
    LET u == conn[c].user
        r == RedisRateLimiterAllow(rl, u, incrOK, expireOK)
        kind == FrameKind(r.ret, f, handlers)
        d == RouterDispatch(handlers, f.type, f.res)
    IN
    /\ conn[c].st = "open"
    /\ loops[c].rd = "read"
    /\ kind = "handler" => handlers[f.type] \notin {"AckHandler", "restoreHandler"}
    /\ rl' = r.lim
    /\ allowed' = [allowed EXCEPT ![u] =
                     Append(@, [t |-> now, ret |-> r.ret, failed |-> r.failed])]
    /\ handled' = [type    |-> "frame",
                    c       |-> c,
                    kind    |-> kind,
                    frame   |-> f,
                    invoked |-> IF kind \in {"handler", "unregistered"} THEN d.invoked ELSE << >>,
                    err     |-> IF kind \in {"handler", "unregistered"} THEN d.err ELSE "nil"]
    /\ conn' = IF kind = "malformed" THEN [conn EXCEPT ![c].st = "closing"] ELSE conn
    /\ hub' = IF kind = "malformed" THEN HubRemove(hub, conn[c].pod, u, c) ELSE hub
    /\ calls' = << >>
    /\ last' = NoCall
    /\ swept' = NoSweep
    /\ UNCHANGED << impl, hasAck, track, loops, crashedAt, extVars, services, now, regVars,
                    ackStore, brokerVars, retry, nSends, sent >>

\* One turn of readLoop for a frame f that is not for a built-in handler:
\* RateLimiter.Allow, json.Unmarshal, Router.Dispatch; the loop goes on
\* whatever comes of the frame.  An application handler returns f.res.
readLoopFrame(c, f, incrOK, expireOK) ==
    LET u == conn[c].user
        r == RedisRateLimiterAllow(rl, u, incrOK, expireOK)
        kind == FrameKind(r.ret, f, handlers)
        d == RouterDispatch(handlers, f.type, f.res)
    IN
    /\ conn[c].st = "open"
    /\ loops[c].rd = "read"
    /\ kind = "handler" => handlers[f.type] \notin {"AckHandler", "restoreHandler"}
    /\ rl' = r.lim
    /\ allowed' = [allowed EXCEPT ![u] =
                     Append(@, [t |-> now, ret |-> r.ret, failed |-> r.failed])]
    /\ handled' = [type    |-> "frame",
                    c       |-> c,
                    kind    |-> kind,
                    frame   |-> f,
                    invoked |-> IF kind \in {"handler", "unregistered"} THEN d.invoked ELSE << >>,
                    err     |-> IF kind \in {"handler", "unregistered"} THEN d.err ELSE "nil"]
    /\ calls' = << >>
    /\ last' = NoCall
    /\ swept' = NoSweep
    /\ UNCHANGED << impl, hasAck, track, loops, crashedAt, extVars, services, now, conn, hub,
                    regVars, ackStore, brokerVars, retry, nSends, sent >>

(***************************************************************************)
(* Package engine: the lifecycle hooks and Run.  A hook is known by the    *)
(* number of the OnStart or OnStop call that registered it; hooks are      *)
(* registered before Run is called.                                        *)
(***************************************************************************)
NewLifecycle ==
    [onStart |-> << >>, onStop |-> << >>, n |-> 0, pc |-> "setup", i |-> 0,
     signalled |-> FALSE, log |-> << >>]

\* OnStart: append(lifecycle.onStart, hook)
AppendHook(lc) == [lc EXCEPT !.onStart = Append(@, lc.n + 1), !.n = @ + 1]

\* Mutant: OnStop appends like OnStart.
PrependHookAtEnd(lc) == [lc EXCEPT !.onStop = Append(@, lc.n + 1), !.n = @ + 1]

\* OnStop: append([]StopHook{hook}, lifecycle.onStop...)
PrependHook(lc) == [lc EXCEPT !.onStop = << lc.n + 1 >> \o @, !.n = @ + 1]

Logged(lc, ev, h) == [lc EXCEPT !.log = Append(@, [ev |-> ev, hook |-> h])]

OnStart ==
    /\ lifecycle.pc = "setup"
    /\ lifecycle' = AppendHook(lifecycle)
    /\ UNCHANGED << wsVars, auxVars, services, server >>

OnStop ==
    /\ lifecycle.pc = "setup"
    /\ lifecycle' = PrependHook(lifecycle)
    /\ UNCHANGED << wsVars, auxVars, services, server >>

\* Run is called: signal.NotifyContext; the loop over the start hooks begins.
RunBegin ==
    /\ lifecycle.pc = "setup"
    /\ lifecycle' = [lifecycle EXCEPT !.pc = "starting", !.i = 1]
    /\ UNCHANGED << wsVars, auxVars, services, server >>

\* SIGINT or SIGTERM arrives while Run runs: ctx is cancelled.
Signal ==
    /\ lifecycle.pc \in {"starting", "waiting"}
    /\ ~lifecycle.signalled
    /\ lifecycle' = [Logged(lifecycle, "signal", 0) EXCEPT !.signalled = TRUE]
    /\ UNCHANGED << wsVars, auxVars, services, server >>

\* The next start hook runs; if it returns an error the process exits.
RunStartHook(ok) ==
    /\ lifecycle.pc = "starting"
    /\ lifecycle.i <= Len(lifecycle.onStart)
    /\ lifecycle' = [Logged(lifecycle, IF ok THEN "start" ELSE "failed",
                            lifecycle.onStart[lifecycle.i])
                       EXCEPT !.i = IF ok THEN @ + 1 ELSE 0,
                              !.pc = IF ok THEN @ ELSE "exited"]
    /\ UNCHANGED << wsVars, auxVars, services, server >>

\* go appMain(ctx); Run waits for <-ctx.Done().
RunMain ==
    /\ lifecycle.pc = "starting"
    /\ lifecycle.i > Len(lifecycle.onStart)
    /\ lifecycle' = [Logged(lifecycle, "main", 0) EXCEPT !.pc = "waiting", !.i = 0]
    /\ UNCHANGED << wsVars, auxVars, services, server >>

\* <-ctx.Done() returns; the loop over the stop hooks begins.
RunDone ==
    /\ lifecycle.pc = "waiting"
    /\ lifecycle.signalled
    /\ lifecycle' = [lifecycle EXCEPT !.pc = "stopping", !.i = 1]
    /\ UNCHANGED << wsVars, auxVars, services, server >>

\* The next stop hook runs.
RunStopHook ==
    /\ lifecycle.pc = "stopping"
    /\ lifecycle.i <= Len(lifecycle.onStop)
    /\ lifecycle' = [Logged(lifecycle, "stop", lifecycle.onStop[lifecycle.i]) EXCEPT !.i = @ + 1]
    /\ UNCHANGED << wsVars, auxVars, services, server >>

\* The stop hooks are through; Run sleeps and returns.
RunReturn ==
    /\ lifecycle.pc = "stopping"
    /\ lifecycle.i > Len(lifecycle.onStop)
    /\ lifecycle' = [lifecycle EXCEPT !.pc = "returned", !.i = 0]
    /\ UNCHANGED << wsVars, auxVars, services, server >>

(***************************************************************************)
(* Package grpc: the servers of one service, each with its heartbeat task, *)
(* and the registry set of the service.  pc is where Start is: "new",      *)
(* "serving", "unregistered" (Shutdown is past Unregister), "stopped"; hb  *)
(* is the heartbeat goroutine: "none", "run", "stopped"; done says that    *)
(* the context of Start is cancelled; beat is when the ticker fires next.  *)
(***************************************************************************)
NewServer == [pc |-> "new", hb |-> "none", done |-> FALSE, beat |-> 0]

\* RedisServiceRegistry.Register: SADD key address, EXPIRE key ttl
RedisServiceRegistryRegister(svc, a) == [members |-> svc.members \cup {a}, exp |-> now + SvcTTL]

\* RedisServiceRegistry.Unregister: SREM key address; Redis drops an empty set.
RedisServiceRegistryUnregister(svc, a) ==
    IF svc.members \ {a} = {} THEN NoServices ELSE [svc EXCEPT !.members = @ \ {a}]

\* Server.Start up to <-ctx.Done(): Register, go Heartbeat, go Serve.
ServerStart(a) ==
    /\ server[a].pc = "new"
    /\ services' = RedisServiceRegistryRegister(services, a)
    /\ server' = [server EXCEPT ![a] = [pc |-> "serving", hb |-> "run", done |-> FALSE,
                                         beat |-> now + SvcBeat]]
    /\ UNCHANGED << wsVars, auxVars, lifecycle >>

\* The context handed to Start is cancelled.
ServerCtxDone(a) ==
    /\ server[a].pc = "serving"
    /\ ~server[a].done
    /\ server' = [server EXCEPT ![a].done = TRUE]
    /\ UNCHANGED << wsVars, auxVars, lifecycle, services >>

\* Heartbeat: the select takes <-ticker.C and registers again.  When the
\* context is cancelled as well, select may still take this case.
HeartbeatRegister(a) ==
    /\ server[a].hb = "run"
    /\ now >= server[a].beat
    /\ services' = RedisServiceRegistryRegister(services, a)
    /\ server' = [server EXCEPT ![a].beat = @ + SvcBeat]
    /\ UNCHANGED << wsVars, auxVars, lifecycle >>

\* Heartbeat: the select takes <-ctx.Done() and the goroutine returns.
HeartbeatReturn(a) ==
    /\ server[a].hb = "run"
    /\ server[a].done
    /\ server' = [server EXCEPT ![a].hb = "stopped"]
    /\ UNCHANGED << wsVars, auxVars, lifecycle, services >>

\* Start gets past <-ctx.Done(); Server.Shutdown: Unregister.
ServerShutdownUnregister(a) ==
    /\ server[a].pc = "serving"
    /\ server[a].done
    /\ services' = RedisServiceRegistryUnregister(services, a)
    /\ server' = [server EXCEPT ![a].pc = "unregistered"]
    /\ UNCHANGED << wsVars, auxVars, lifecycle >>

\* Server.Shutdown: GracefulStop returns, "shutdown complete".
ServerShutdownStop(a) ==
    /\ server[a].pc = "unregistered"
    /\ server' = [server EXCEPT ![a].pc = "stopped"]
    /\ UNCHANGED << wsVars, auxVars, lifecycle, services >>

\* The clock advances; a running heartbeat task neither misses its ticker
\* nor sleeps through the cancellation of its context.
ServiceTick(max) ==
    /\ \A a \in Addrs : server[a].hb = "run" => (~server[a].done /\ now < server[a].beat)
    /\ TickUpTo(max)

(***************************************************************************)
(* The older Hub of package ws, lock by lock, for the connections of one   *)
(* user on one pod.  mu is the Hub's RWMutex (w: the goroutine that holds  *)
(* the write lock, r: those that hold a read lock), active the user's      *)
(* entry of Hub.active, cmu the mutex of each WebSocketConn, writing the   *)
(* goroutines that are inside a write call on the connection's socket,     *)
(* closed whether raw.Close was called.  listen, ping and send say where   *)
(* the goroutine of a connection's listen loop, of its ping ticker and of  *)
(* each Hub.Send caller is.                                                *)
(***************************************************************************)
LegacyConns == {1, 2}
LegacySenders == {"s1"}
LegacyUser == "u1"
LegacyPod == "p1"
NoHolder == << >>

Listener(c) == << "listen", c >>
Pinger(c) == << "ping", c >>
SendCaller(s) == << "send", s >>

LegacyInitHub ==
    [mu      |-> [w |-> NoHolder, r |-> {}],
     active  |-> {},
     cmu     |-> [c \in LegacyConns |-> NoHolder],
     writing |-> [c \in LegacyConns |-> {}],
     closed  |-> [c \in LegacyConns |-> FALSE],
     listen  |-> [c \in LegacyConns |-> "new"],
     ping    |-> [c \in LegacyConns |-> "none"],
     send    |-> [s \in LegacySenders |-> [pc |-> "idle", todo |-> {}, cur |-> 0]]]

\* sync.RWMutex: Lock waits for the writer and the readers, RLock for the writer.
CanLock(mu) == mu.w = NoHolder /\ mu.r = {}
CanRLock(mu) == mu.w = NoHolder

\* Hub.Register: h.mu.Lock(), the connection is put into the map, h.mu.Unlock().
HubRegister(c) ==
    /\ legacyHub.listen[c] = "new"
    /\ CanLock(legacyHub.mu)
    /\ legacyHub' = [legacyHub EXCEPT !.active = @ \cup {c}, !.listen[c] = "add"]
    /\ UNCHANGED << nonRegVars, regVars, client >>

\* Hub.Register: registry.Add, with no lock held; then go h.listen, which
\* starts the ping goroutine.
HubRegisterAdd(c) ==
    /\ legacyHub.listen[c] = "add"
    /\ presence' = PresenceRegistryAdd(presence, LegacyUser, LegacyPod)
    /\ presExp' = presExp
    /\ legacyHub' = [legacyHub EXCEPT !.listen[c] = "read", !.ping[c] = "wait"]
    /\ UNCHANGED << nonRegVars, client >>

\* Hub.listen: ReadMessage fails; the close frame is written with
\* conn.raw.WriteMessage, without the connection's mutex.
HubListenReadError(c) ==
    /\ legacyHub.listen[c] = "read"
    /\ legacyHub' = [legacyHub EXCEPT !.writing[c] = @ \cup {Listener(c)},
                                      !.listen[c] = "closeframe"]
    /\ UNCHANGED << nonRegVars, regVars, client >>

\* Hub.listen: that write returns; break.
HubListenCloseFrameDone(c) ==
    /\ legacyHub.listen[c] = "closeframe"
    /\ legacyHub' = [legacyHub EXCEPT !.writing[c] = @ \ {Listener(c)},
                                      !.listen[c] = "close"]
    /\ UNCHANGED << nonRegVars, regVars, client >>

\* Hub.listen: a frame that is answered with SendReply("error", ...):
\* WebSocketConn.WriteMessage takes the connection's mutex and writes.
HubListenReply(c) ==
    /\ legacyHub.listen[c] = "read"
    /\ legacyHub.cmu[c] = NoHolder
    /\ legacyHub' = [legacyHub EXCEPT !.cmu[c] = Listener(c),
                                      !.writing[c] = @ \cup {Listener(c)},
                                      !.listen[c] = "reply"]
    /\ UNCHANGED << nonRegVars, regVars, client >>

\* WebSocketConn.WriteMessage returns and unlocks; listen reads on.
HubListenReplyDone(c) ==
    /\ legacyHub.listen[c] = "reply"
    /\ legacyHub' = [legacyHub EXCEPT !.cmu[c] = NoHolder,
                                      !.writing[c] = @ \ {Listener(c)},
                                      !.listen[c] = "read"]
    /\ UNCHANGED << nonRegVars, regVars, client >>

\* WebSocketConn.Close: the close frame is written with raw.WriteMessage,
\* without the connection's mutex.
WebSocketConnClose(c) ==
    /\ legacyHub.listen[c] = "close"
    /\ legacyHub' = [legacyHub EXCEPT !.writing[c] = @ \cup {Listener(c)},
                                      !.listen[c] = "closing"]
    /\ UNCHANGED << nonRegVars, regVars, client >>

\* WebSocketConn.Close: the write returns, raw.Close().
WebSocketConnCloseDone(c) ==
    /\ legacyHub.listen[c] = "closing"
    /\ legacyHub' = [legacyHub EXCEPT !.writing[c] = @ \ {Listener(c)},
                                      !.closed[c] = TRUE,
                                      !.listen[c] = "unregister"]
    /\ UNCHANGED << nonRegVars, regVars, client >>

\* Hub.Unregister: h.mu.Lock(), the connection is deleted from the map, and
\* registry.Remove is called with the lock held.
HubUnregister(c) ==
    /\ legacyHub.listen[c] = "unregister"
    /\ CanLock(legacyHub.mu)
    /\ legacyHub' = [legacyHub EXCEPT !.mu.w = Listener(c),
                                      !.active = @ \ {c},
                                      !.listen[c] = "remove"]
    /\ UNCHANGED << nonRegVars, regVars, client >>

\* Hub.Unregister: registry.Remove returns, h.mu.Unlock().
HubUnregisterRemoved(c) ==
    /\ legacyHub.listen[c] = "remove"
    /\ presence' = PresenceRegistryRemove(presence, LegacyUser, LegacyPod)
    /\ presExp' = KeyExp(presence', presExp)
    /\ legacyHub' = [legacyHub EXCEPT !.mu.w = NoHolder, !.listen[c] = "done"]
    /\ UNCHANGED << nonRegVars, client >>

\* The ping goroutine of listen: conn.Lock(), raw.WriteControl.
HubListenPing(c) ==
    /\ legacyHub.ping[c] = "wait"
    /\ legacyHub.cmu[c] = NoHolder
    /\ legacyHub' = [legacyHub EXCEPT !.cmu[c] = Pinger(c),
                                      !.writing[c] = @ \cup {Pinger(c)},
                                      !.ping[c] = "ping"]
    /\ UNCHANGED << nonRegVars, regVars, client >>

\* WriteControl returns, conn.Unlock(); the goroutine ends when the write
\* failed, as it does on a closed socket.
HubListenPingDone(c) ==
    /\ legacyHub.ping[c] = "ping"
    /\ legacyHub' = [legacyHub EXCEPT !.cmu[c] = NoHolder,
                                      !.writing[c] = @ \ {Pinger(c)},
                                      !.ping[c] = IF legacyHub.closed[c] THEN "stopped"
                                                  ELSE "wait"]
    /\ UNCHANGED << nonRegVars, regVars, client >>

\* Hub.Send: h.mu.RLock(), the user's connections are looked up.
HubSend(s) ==
    /\ legacyHub.send[s].pc = "idle"
    /\ CanRLock(legacyHub.mu)
    /\ legacyHub' = [legacyHub EXCEPT !.mu.r = @ \cup {SendCaller(s)},
                                      !.send[s] = [pc |-> "range", todo |-> legacyHub.active,
                                                   cur |-> 0]]
    /\ UNCHANGED << nonRegVars, regVars, client >>

\* Hub.Send: c.WriteMessage(msg) for the next connection of the range:
\* the connection's mutex is taken and the message written.
HubSendWrite(s, c) ==
    /\ legacyHub.send[s].pc = "range"
    /\ c \in legacyHub.send[s].todo
    /\ legacyHub.cmu[c] = NoHolder
    /\ legacyHub' = [legacyHub EXCEPT !.cmu[c] = SendCaller(s),
                                      !.writing[c] = @ \cup {SendCaller(s)},
                                      !.send[s] = [pc |-> "write", todo |-> @.todo \ {c},
                                                   cur |-> c]]
    /\ UNCHANGED << nonRegVars, regVars, client >>

\* WebSocketConn.WriteMessage returns and unlocks.
HubSendWriteDone(s) ==
    /\ legacyHub.send[s].pc = "write"
    /\ LET c == legacyHub.send[s].cur IN
       legacyHub' = [legacyHub EXCEPT !.cmu[c] = NoHolder,
                                      !.writing[c] = @ \ {SendCaller(s)},
                                      !.send[s] = [@ EXCEPT !.pc = "range", !.cur = 0]]
    /\ UNCHANGED << nonRegVars, regVars, client >>

\* Hub.Send: the range is over; the deferred h.mu.RUnlock().
HubSendReturn(s) ==
    /\ legacyHub.send[s].pc = "range"
    /\ legacyHub.send[s].todo = {}
    /\ legacyHub' = [legacyHub EXCEPT !.mu.r = @ \ {SendCaller(s)},
                                      !.send[s] = [pc |-> "idle", todo |-> {}, cur |-> 0]]
    /\ UNCHANGED << nonRegVars, regVars, client >>

(***************************************************************************)
(* Package rabbitmq: the Client of one pod, lock by lock.  mu is the       *)
(* goroutine that holds Client.mu, up whether Client.conn is an open       *)
(* connection, cancelled whether Close has cancelled the context,          *)
(* subscribers the list Client.subscribers (routing keys), subs where each *)
(* runSubscriber goroutine is ("none": not started), th where the monitor  *)
(* goroutine and each caller of Publish is, todo what is left of the       *)
(* resubscription range, closer where the caller of Close is, sender       *)
(* whether NewRMQSender has run, losses how often the connection was lost. *)
(***************************************************************************)
MaxLosses == 2          \* the broker connection is lost at most so often
Publishers == {"b1"}    \* the goroutines that call Client.Publish
ClientPod == "p1"       \* the pod the client belongs to

RECURSIVE Pow2(_)
Pow2(n) == IF n = 0 THEN 1 ELSE 2 * Pow2(n - 1)

\* Every reconnect subscribes once more for each listed subscription.
MaxSubs == Pow2(MaxLosses)

Monitor == "monitor"
Closer == "close"
Reconnectors == {Monitor} \cup Publishers

\* NewClient: connect succeeded, go monitorConnection; nothing subscribed.
NewClient ==
    [mu          |-> NoHolder,
     up          |-> TRUE,
     cancelled   |-> FALSE,
     losses      |-> 0,
     sender      |-> FALSE,
     subscribers |-> << >>,
     subs        |-> [k \in 1..MaxSubs |-> "none"],
     th          |-> [t \in Reconnectors |-> [pc |-> IF t = Monitor THEN "watch" ELSE "idle",
                                              todo |-> 0]],
     closer      |-> "idle"]

Started(cl) == {k \in 1..MaxSubs : cl.subs[k] # "none"}
Running(cl) == {k \in 1..MaxSubs : cl.subs[k] \notin {"none", "exited"}}

\* Client.Subscribe: under the mutex the subscription is appended to the
\* list; then wg.Add(1) and go runSubscriber.
ClientSubscribe(cl, key) ==
    [cl EXCEPT !.subscribers = Append(@, key),
               !.subs[Cardinality(Started(cl)) + 1] = "check"]

\* NewRMQSender: the pod subscribes to its own topic.
NewRMQSender ==
    /\ ~client.sender
    /\ client.mu = NoHolder
    /\ client' = [ClientSubscribe(client, getKey(ClientPod)) EXCEPT !.sender = TRUE]
    /\ UNCHANGED nonClientVars

\* The broker connection is lost.
ConnectionLost ==
    /\ client.up
    /\ ~client.cancelled
    /\ client.losses < MaxLosses
    /\ client' = [client EXCEPT !.up = FALSE, !.losses = @ + 1]
    /\ UNCHANGED nonClientVars

\* monitorConnection: the close notification arrives, c.reconnect().
monitorConnection ==
    /\ client.th[Monitor].pc = "watch"
    /\ ~client.up
    /\ ~client.cancelled
    /\ client' = [client EXCEPT !.th[Monitor].pc = "sleep"]
    /\ UNCHANGED nonClientVars

\* monitorConnection: <-c.closed or <-c.ctx.Done().
monitorConnectionStop ==
    /\ client.th[Monitor].pc = "watch"
    /\ client.cancelled
    /\ client' = [client EXCEPT !.th[Monitor].pc = "stopped"]
    /\ UNCHANGED nonClientVars

\* reconnect, top of the loop: the client is closed, return.  The monitor
\* goroutine ends; Publish goes on to publish.
reconnectStop(t) ==
    /\ client.th[t].pc = "sleep"
    /\ client.cancelled
    /\ client' = [client EXCEPT !.th[t].pc = IF t = Monitor THEN "stopped" ELSE "publish"]
    /\ UNCHANGED nonClientVars

\* reconnect: Sleep, then connect up to its c.mu.Lock(): Dial, Channel and
\* ExchangeDeclare succeed.  (When one of them fails the loop comes back here.)
reconnectDial(t) ==
    /\ client.th[t].pc = "sleep"
    /\ ~client.cancelled
    /\ client' = [client EXCEPT !.th[t].pc = "dialed"]
    /\ UNCHANGED nonClientVars

\* connect: c.mu.Lock(), the new connection and channel are stored,
\* c.mu.Unlock(); back in reconnect the range over c.subscribers begins.
connect(t) ==
    /\ client.th[t].pc = "dialed"
    /\ client.mu = NoHolder
    /\ client' = [client EXCEPT !.up = TRUE,
                                !.th[t] = [pc |-> "resub", todo |-> Len(client.subscribers)]]
    /\ UNCHANGED nonClientVars

\* reconnect: c.Subscribe for the next subscription of the range.
reconnectSubscribe(t) ==
    /\ client.th[t].pc = "resub"
    /\ client.th[t].todo > 0
    /\ client.mu = NoHolder
    /\ Cardinality(Started(client)) < MaxSubs
    /\ LET n == (Len(client.subscribers) + client.th[t].todo) \div 2   \* the range's length
           i == n - client.th[t].todo + 1
       IN client' = [ClientSubscribe(client, client.subscribers[i])
                        EXCEPT !.th[t].todo = @ - 1]
    /\ UNCHANGED nonClientVars

\* reconnect: the range is over; go monitorConnection, return.
reconnectDone(t) ==
    /\ client.th[t].pc = "resub"
    /\ client.th[t].todo = 0
    /\ client' = [client EXCEPT !.th[t].pc = IF t = Monitor THEN "watch" ELSE "publish"]
    /\ UNCHANGED nonClientVars

\* Client.Publish: c.mu.Lock(); with the connection closed, c.reconnect().
PublishLock(b) ==
    /\ client.th[b].pc = "idle"
    /\ client.mu = NoHolder
    /\ client' = [client EXCEPT !.mu = << b >>,
                                !.th[b].pc = IF client.up THEN "publish" ELSE "sleep"]
    /\ UNCHANGED nonClientVars

\* Client.Publish: PublishWithContext, the deferred c.mu.Unlock(), return.
Publish(b) ==
    /\ client.th[b].pc = "publish"
    /\ client' = [client EXCEPT !.mu = NoHolder, !.th[b].pc = "idle"]
    /\ UNCHANGED nonClientVars

\* runSubscriber, top of the loop: <-c.ctx.Done() or default.
runSubscriberCheck(k) ==
    /\ client.subs[k] = "check"
    /\ client' = [client EXCEPT !.subs[k] = IF client.cancelled THEN "exited" ELSE "lock"]
    /\ UNCHANGED nonClientVars

\* runSubscriber: c.mu.Lock(), conn := c.conn, c.mu.Unlock(); on an open
\* connection a channel is made and consumed from, else Sleep and continue.
runSubscriberConn(k) ==
    /\ client.subs[k] = "lock"
    /\ client.mu = NoHolder
    /\ client' = [client EXCEPT !.subs[k] = IF client.up THEN "consume" ELSE "check"]
    /\ UNCHANGED nonClientVars

\* runSubscriber: the channel is closed or the context is done; ch.Close(),
\* Sleep, and the loop starts again.
runSubscriberChannelClosed(k) ==
    /\ client.subs[k] = "consume"
    /\ ~client.up \/ client.cancelled
    /\ client' = [client EXCEPT !.subs[k] = "check"]
    /\ UNCHANGED nonClientVars

\* Client.Close: c.mu.Lock(), c.cancel(), close(c.closed), then c.wg.Wait().
ClientClose ==
    /\ client.closer = "idle"
    /\ client.sender
    /\ client.mu = NoHolder
    /\ client' = [client EXCEPT !.mu = << Closer >>, !.cancelled = TRUE, !.closer = "wait"]
    /\ UNCHANGED nonClientVars

\* Client.Close: wg.Wait() returns, the channel and the connection are
\* closed, the deferred c.mu.Unlock(), return.
ClientCloseReturn ==
    /\ client.closer = "wait"
    /\ Running(client) = {}
    /\ client' = [client EXCEPT !.mu = NoHolder, !.up = FALSE, !.closer = "returned"]
    /\ UNCHANGED nonClientVars


InitAll(i, a, t) ==
    /\ impl = i
    /\ hasAck = a
    /\ track = t
    /\ loops = [c \in Conns |-> NoLoops]
    /\ crashedAt = [p \in Pods |-> NoExp]
    /\ now = 0
    /\ conn = [c \in Conns |-> FreshConn]
    /\ hub = [p \in Pods |-> [u \in Users |-> {}]]
    /\ presence = [u \in Users |-> {}]
    /\ presExp = [u \in Users |-> NoExp]
    /\ ackStore = << >>
    /\ queue = [p \in Pods |-> << >>]
    /\ inflight = [p \in Pods |-> None]
    /\ retry = {}
    /\ nSends = 0
    /\ calls = << >>
    /\ last = NoCall
    /\ sent = << >>
    /\ rl = [u \in Users |-> None]
    /\ allowed = [u \in Users |-> << >>]
    /\ handled = NoFrame
    /\ swept = NoSweep
    /\ handlers = NewWebSocketHandlers(a)
    /\ regLog = NewWebSocketRegistered(a)
    /\ lifecycle = NewLifecycle
    /\ services = NoServices
    /\ server = [s \in Addrs |-> NewServer]
    /\ legacyHub = LegacyInitHub
    /\ client = NewClient

InitWith(i, a) == InitAll(i, a, TRUE)

(***************************************************************************)
(* Presence: connections of two users come and go on two pods.             *)
(***************************************************************************)
InitPresence == \E i \in Impls : InitWith(i, FALSE)

PresenceUsers == {"u1", "u2"}

NextPresence ==
    \/ \E c \in Conns, u \in PresenceUsers, p \in Pods : RegisterConnAdd(c, u, p)
    \/ \E c \in Conns : RegisterConnOnline(c)
    \/ \E c \in Conns : readLoopExit(c)
    \/ \E c \in Conns : readLoopMarkOffline(c)

SpecPresence == InitPresence /\ [][NextPresence]_vars

Live(u, p) == {c \in Conns : conn[c].st = "open" /\ conn[c].user = u /\ conn[c].pod = p}

Quiescent == \A c \in Conns : conn[c].st \in {"none", "open", "closed"}

\* C1: once every registration and teardown has run to its end, a pod is in a
\* user's presence set if and only if it holds a live connection of that user.
PresenceIffLive ==
    Quiescent => \A u \in Users, p \in Pods : (p \in presence[u]) <=> (Live(u, p) # {})

(***************************************************************************)
(* Sender: connections come and go while callers send to users and the     *)
(* pods' consumers work off their queues.                                  *)
(***************************************************************************)
SenderUsers == {"u1"}

SenderMsgs == { Marshal(Envelope(uid, NoID, FALSE, 0)) : uid \in {NoUser, "u1"} }

InitSender == \E i \in Impls : InitWith(i, FALSE)

SenderCall ==
    /\ nSends < SenderSends
    /\ \E p \in Pods, u \in SenderUsers, data \in SenderMsgs, regOK \in BOOLEAN :
          \E F \in Failing(p, u, regOK) : SendToUser(p, u, data, regOK, F)

NextSender ==
    \/ \E c \in Conns, u \in SenderUsers, p \in Pods : RegisterConnAdd(c, u, p)
    \/ \E c \in Conns : RegisterConnOnline(c)
    \/ \E c \in Conns : readLoopExit(c)
    \/ \E c \in Conns : readLoopMarkOffline(c)
    \/ \E c \in Conns : writeLoop(c)
    \/ SenderCall
    \/ \E q \in Pods : runSubscriberReceive(q)
    \/ \E q \in Pods : runSubscriberHandle(q)
    \/ \E q \in Pods : StartConsumerReceive(q)
    \/ \E q \in Pods : StartConsumerHandle(q)

SpecSender == InitSender /\ [][NextSender]_vars

(***************************************************************************)
(* Properties of Sender.SendToUser, stated over the record of the call     *)
(* that the latest step made.                                              *)
(***************************************************************************)
Topic(q) == << "ws", "send", q >>       \* the topic ws.send.<q>

Attempts(pod) == {i \in 1..Len(last.attempts) : last.attempts[i].pod = pod}

Failed == {i \in 1..Len(last.attempts) : ~last.attempts[i].ok}

Range(seq) == {seq[i] : i \in 1..Len(seq)}

\* What the consumer's delivery of the broker message m hands to the Hub.
Handled(q) == inflight[q] # None /\ inflight'[q] = None

\* C4 (Scenario A): a send on pod p for a user who is present on another pod q
\* only publishes exactly once, to ws.send.q, and delivers nothing locally;
\* when q's subscriber has processed the message, the message has been handed
\* exactly once to q's Hub for that user.
ScenarioARemoteDelivery ==
    [][ /\ (last'.called /\ last'.regOK /\ Len(last'.pods) = 1 /\ last'.pods[1] # last'.pod
            /\ \A i \in 1..Len(last'.attempts) : last'.attempts[i].ok)
           => /\ Len(last'.attempts) = 1
              /\ last'.attempts[1].kind = "publish"
              /\ last'.attempts[1].key = Topic(last'.pods[1])
              /\ calls' = << >>
        /\ \A q \in Pods :
             Handled(q) => calls' = << [pod |-> q, user |-> inflight[q].msg.to,
                                        data |-> inflight[q].msg.data] >>
      ]_vars

RegistryErrorPropagates ==
    (last.called /\ ~last.regOK)
        => /\ last.ret = "registry error"
           /\ last.attempts = << >>
           /\ calls = << >>

\* C7: for a user present on several pods SendToUser returns an error if the
\* delivery to any pod failed, and nil only if every pod's delivery succeeded.
FanOutFailureReported ==
    (last.called /\ last.regOK /\ Len(last.pods) >= 2)
        => /\ (Failed # {} => last.ret # "nil")
           /\ (last.ret = "nil" =>
                 \A pod \in Range(last.pods) :
                    \E i \in Attempts(pod) : last.attempts[i].ok)

\* How the attempt for pod q of a call on pod p looks when the pod is served
\* locally or through its own topic.
LocalOrOwnTopic(a, p) ==
    IF a.pod = p THEN a.kind = "local" ELSE a.kind = "publish" /\ a.key = Topic(a.pod)

\* The broker messages a call's successful publishes add to the queue of pod q.
Added(q) ==
    LET n == Len(queue[q]) IN
    IF Len(queue'[q]) >= n /\ SubSeq(queue'[q], 1, n) = queue[q]
    THEN SubSeq(queue'[q], n + 1, Len(queue'[q]))
    ELSE << [body |-> "queue was not appended to"] >>

AckAfterLocalDelivery == \A q \in Pods : inflight[q] # None => ~inflight[q].acked


(***************************************************************************)
(* Acknowledgment: one user's connections come and go on two pods while    *)
(* messages that ask for an acknowledgment are sent, swept, acknowledged   *)
(* and left to lapse.  The pods run RMQSender; no storage or broker        *)
(* operation fails.                                                        *)
(***************************************************************************)
AckUsers == {"u1"}

AckIDs == {"m1"}

AckEnvelopes ==
    { Envelope("u1", id, TRUE, ex) : id \in AckIDs, ex \in {0, 1} }
        \cup { Envelope(NoUser, id, TRUE, 0) : id \in AckIDs }

AckPods == {"p1"}     \* the pods that take connections; callers are on every pod

InitAck == InitWith("rmq", TRUE)

AckCall ==
    /\ nSends < AckSends
    /\ \E p \in Pods, u \in AckUsers, e \in AckEnvelopes : WebSocketSendToUser(p, u, e, TRUE, {})

NextAck ==
    \/ \E c \in Conns, u \in AckUsers, p \in AckPods : RegisterConnAdd(c, u, p)
    \/ \E c \in Conns : RegisterConnOnline(c)
    \/ \E c \in Conns : readLoopExit(c)
    \/ \E c \in Conns : readLoopMarkOffline(c)
    \/ \E c \in Conns : writeLoop(c)
    \/ \E c \in Conns, id \in AckIDs : readLoopAck(c, id)
    \/ \E c \in Conns, u \in AckUsers, p \in AckPods : retryUnacked([c |-> c, user |-> u, pod |-> p])
    \/ AckCall
    \/ \E q \in Pods : runSubscriberReceive(q)
    \/ \E q \in Pods : runSubscriberHandle(q)
    \/ Tick

SpecAck == InitAck /\ [][NextAck]_vars


\* C2 (as stated): a message sent with an acknowledgment request, an id and
\* no expiry before its record lapses, to a user who kept a registered
\* connection from the send on and did not acknowledge, has been put on an
\* outbound channel of a connection of that user by the time the record
\* lapses with nothing left on its way.
AtLeastOnceDelivery ==
    \A k \in DOMAIN sent :
        (sent[k].lapsed /\ sent[k].idle /\ sent[k].held /\ sent[k].stays /\ ~sent[k].acked)
            => sent[k].enq

NoDup(seq) == \A i, j \in 1..Len(seq) : seq[i] = seq[j] => i = j

InHub(c, p, u) == conn[c].st \in {"added", "open"} /\ conn[c].pod = p /\ conn[c].user = u

RECURSIVE Enqueued(_, _, _)
Enqueued(send, c, cs) ==
    IF cs = << >> THEN send
    ELSE Enqueued(IF InHub(c, Head(cs).pod, Head(cs).user) /\ Len(send) < SendCap
                  THEN Append(send, Head(cs).data) ELSE send,
                  c, Tail(cs))

SendLocalEnqueuesOnce ==
    [][ calls' # << >> => \A c \in Conns : conn'[c].send = Enqueued(conn[c].send, c, calls') ]_vars

\* A call reached a connection in the Hub while another connection of the
\* same user on the same pod, already removed from the Hub, was left alone.
SendLocalWitness ==
    /\ calls # << >>
    /\ \E c, d \in Conns :
         /\ InHub(c, calls[1].pod, calls[1].user)
         /\ conn[c].send # << >>
         /\ conn[c].send[Len(conn[c].send)] = calls[1].data
         /\ conn[d].st = "closing" /\ conn[d].pod = calls[1].pod /\ conn[d].user = calls[1].user
         /\ conn[d].send = << >>

(***************************************************************************)
(* Hub: connections of one user come and go on one pod while callers on    *)
(* that pod send to the user, so that every send is a local delivery.      *)
(***************************************************************************)
HubSends == 3      \* Sender.SendToUser calls in one run of SpecHub

HubUsers == {"u1"}

HubPods == {"p1"}

InitHub == InitWith("rmq", FALSE)

HubCall ==
    /\ nSends < HubSends
    /\ \E p \in HubPods, u \in HubUsers, data \in SenderMsgs : SendToUser(p, u, data, TRUE, {})

NextHub ==
    \/ \E c \in Conns, u \in HubUsers, p \in HubPods : RegisterConnAdd(c, u, p)
    \/ \E c \in Conns : RegisterConnOnline(c)
    \/ \E c \in Conns : readLoopExit(c)
    \/ \E c \in Conns : readLoopMarkOffline(c)
    \/ \E c \in Conns : writeLoop(c)
    \/ HubCall

SpecHub == InitHub /\ [][NextHub]_vars

\* The connections a Hub.SendLocal call is for: those of the user on the pod
\* that are between Hub.Add and Hub.Remove.
Targets(call) == {c \in Conns : InHub(c, call.pod, call.user)}

InitLimiter == InitWith("rmq", FALSE)

LimiterUsers == {"u1", "u2"}

\* The storage outcomes that make a difference: EXPIRE is only performed by
\* the call that creates the key.
AllowCall ==
    /\ Len(allowed["u1"]) + Len(allowed["u2"]) < RLCalls
    /\ \E u \in LimiterUsers, incrOK \in BOOLEAN, expireOK \in BOOLEAN :
          /\ (~incrOK => expireOK)
          /\ (~expireOK => rl[u] = None)
          /\ RateLimiterAllow(u, incrOK, expireOK)

NextLimiter ==
    \/ AllowCall
    \/ Tick

SpecLimiter == InitLimiter /\ [][NextLimiter]_vars

\* The answer a fixed window of RLWindow ticks with limit RLLimit gives to the
\* i-th call of a log: start is the time the running window began (NoExp:
\* none), n the number of calls in it so far.
RECURSIVE WindowAnswer(_, _, _, _, _)
WindowAnswer(log, i, j, start, n) ==
    LET fresh == start = NoExp \/ log[j].t >= start + RLWindow
        s == IF fresh THEN log[j].t ELSE start
        m == IF fresh THEN 1 ELSE n + 1
    IN IF j = i THEN m <= RLLimit ELSE WindowAnswer(log, i, j + 1, s, m)

NoFailure(log) == \A i \in 1..Len(log) : ~log[i].failed

\* C12: without storage errors the calls for a user are answered as a fixed
\* window answers them: the first RLLimit calls of a window get true, the
\* later ones of that window false, and the first call after the window has
\* run out gets true again and starts a new window; the calls for other
\* users play no part.
FixedWindowLimit ==
    \A u \in Users :
        NoFailure(allowed[u]) =>
            \A i \in 1..Len(allowed[u]) :
                allowed[u][i].ret = WindowAnswer(allowed[u], i, 1, NoExp, 0)

\* One user got RLLimit times true and then false within a window and true
\* again after it; the other user was allowed in between.
FixedWindowWitness ==
    \E u, v \in Users :
        /\ u # v
        /\ NoFailure(allowed[u])
        /\ Len(allowed[u]) = RLLimit + 2
        /\ \A i \in 1..RLLimit : allowed[u][i].ret /\ allowed[u][i].t < allowed[u][1].t + RLWindow
        /\ ~allowed[u][RLLimit + 1].ret
        /\ allowed[u][RLLimit + 1].t < allowed[u][1].t + RLWindow
        /\ allowed[u][RLLimit + 2].ret
        /\ allowed[v] # << >> => allowed[v][1].ret

\* C13: a call during which a storage operation failed returned true.
AllowFailsOpen ==
    \A u \in Users : \A i \in 1..Len(allowed[u]) : allowed[u][i].failed => allowed[u][i].ret

\* INCR failed for a user who was over the limit, and the call returned true.
FailOpenWitness ==
    \E u \in Users : \E i \in 1..Len(allowed[u]) :
        /\ i > RLLimit + 1
        /\ \A j \in 1..(i - 1) : ~allowed[u][j].failed /\ allowed[u][j].t = allowed[u][1].t
        /\ ~allowed[u][i - 1].ret
        /\ allowed[u][i].failed /\ allowed[u][i].ret

(***************************************************************************)
(* Ack store: two users whose identifiers share a prefix, two message      *)
(* identifiers, one pod; envelopes with and without RequiresAck and        *)
(* ExpiresAt are sent, acknowledged, restored and swept while time passes. *)
(***************************************************************************)
StoreSends == 2   \* WebSocket.SendToUser calls in one run of SpecStore

StoreUsers == {"u1", "u1:x"}

StoreIDs == {"m1", "x:m1"}

StorePods == {"p1"}

StoreConns == {1}     \* one connection at a time, of either user


StoreEnvelopes ==
    { Envelope(NoUser, "m1", TRUE, 0), Envelope(NoUser, "m1", TRUE, 2),
      Envelope(NoUser, "x:m1", TRUE, 2), Envelope(NoUser, "m1", FALSE, 0) }

InitStore == InitWith("rmq", TRUE)

StoreCall ==
    /\ nSends < StoreSends
    /\ \E p \in StorePods, u \in StoreUsers, e \in StoreEnvelopes :
          WebSocketSendToUser(p, u, e, TRUE, {})

NextStore ==
    \/ \E c \in StoreConns, u \in StoreUsers, p \in StorePods : RegisterConnAdd(c, u, p)
    \/ \E c \in StoreConns : RegisterConnOnline(c)
    \/ \E c \in StoreConns : writeLoop(c)
    \/ \E c \in StoreConns, id \in StoreIDs : readLoopAck(c, id)
    \/ \E c \in StoreConns, u \in StoreUsers, p \in StorePods :
          retryUnacked([c |-> c, user |-> u, pod |-> p])
    \/ StoreCall
    \/ Tick

SpecStore == InitStore /\ [][NextStore]_vars

Pending(key) ==
    {k \in DOMAIN sent :
        /\ AckKey(k[1], k[2]) = key
        /\ Unmarshal(sent[k].data).RequiresAck
        /\ ~sent[k].acked
        /\ ~sent[k].lapsed}

\* Every record is one that a RequiresAck send, still pending, wrote under
\* its key, and its time to live has not run out.
AckRecordsPending ==
    \A key \in DOMAIN ackStore :
        /\ now < ackStore[key].exp
        /\ ackStore[key].exp <= now + AckTTL
        /\ Unmarshal(ackStore[key].data).RequiresAck
        /\ \E k \in Pending(key) : sent[k].data = ackStore[key].data

StoreSince == {0, 1, 3}   \* the since of restore requests; ExpiresAt is 0 or 2

InitRestore == InitAll("rmq", TRUE, FALSE)

NextRestore ==
    \/ \E c \in StoreConns, u \in StoreUsers, p \in StorePods : RegisterConnAdd(c, u, p)
    \/ \E c \in StoreConns : RegisterConnOnline(c)
    \/ \E c \in StoreConns : writeLoop(c)
    \/ \E c \in StoreConns, since \in StoreSince, keysOK \in BOOLEAN :
          readLoopRestore(c, since, keysOK)
    \/ \E c \in StoreConns, u \in StoreUsers, p \in StorePods :
          retryUnacked([c |-> c, user |-> u, pod |-> p])
    \/ StoreCall
    \/ Tick

SpecRestore == InitRestore /\ [][NextRestore]_vars

\* The stored entries a restore request {since} of user u is to get back:
\* those KEYS lists for u that have not expired and do not expire before since.
RestoreDue(u, since) ==
    {k \in Keys(ackStore, u) :
        LET ex == Unmarshal(ackStore[k].data).ExpiresAt IN
        /\ ~(ex > 0 /\ ex < now)
        /\ ~(since > 0 /\ ex > 0 /\ ex < since)}

Min(a, b) == IF a < b THEN a ELSE b

RestoreNeverSilent ==
    [][ (/\ handled'.type = "restore"
         /\ handled'.keysOK
         /\ Len(conn[handled'.c].send) < SendCap) =>
          LET got == Grown(conn', handled'.c) IN
          /\ Keys(ackStore, handled'.user) = {} => got = << NoMessage >>
          /\ got # << >>
      ]_vars


(***************************************************************************)
(* Teardown: connections of one user on one pod whose writeLoop may fail   *)
(* and whose client sends "restore" frames.  Fairness: a readLoop that     *)
(* waits for a frame gets a read error or runs into its deadline, the      *)
(* deferred teardown runs to its end, and a writeLoop that runs serves its *)
(* channel.                                                                *)
(***************************************************************************)
TeardownSends == 1   \* Sender.SendToUser calls in one run of SpecTeardown

TeardownUsers == {"u1"}

InitTeardown == InitAll("rmq", TRUE, FALSE)

TeardownCall ==
    /\ nSends < TeardownSends
    /\ \E p \in StorePods, u \in TeardownUsers, data \in SenderMsgs :
          SendToUser(p, u, data, TRUE, {})

NextTeardown ==
    \/ \E c \in Conns, u \in TeardownUsers, p \in StorePods : RegisterConnAdd(c, u, p)
    \/ \E c \in Conns : RegisterConnOnline(c)
    \/ \E c \in Conns, u \in TeardownUsers, p \in StorePods :
          retryUnacked([c |-> c, user |-> u, pod |-> p])
    \/ \E c \in Conns : readLoopRestore(c, 0, TRUE)
    \/ \E c \in Conns : readLoopRestoreBlock(c)
    \/ \E c \in Conns : readLoopRestoreResume(c)
    \/ \E c \in Conns : writeLoop(c)
    \/ \E c \in Conns, onPing \in BOOLEAN : writeLoopFail(c, onPing)
    \/ \E c \in Conns : readLoopExit(c)
    \/ \E c \in Conns : readLoopMarkOffline(c)
    \/ TeardownCall

SpecTeardown ==
    /\ InitTeardown
    /\ [][NextTeardown]_vars
    /\ \A c \in Conns :
          /\ WF_vars(readLoopExit(c))
          /\ WF_vars(readLoopMarkOffline(c))
          /\ WF_vars(writeLoop(c))
          /\ WF_vars(readLoopRestoreResume(c))

\* C18: after a failure of its writeLoop a connection is torn down: it leaves
\* the Hub and is marked offline.
TeardownAfterWriteFailure ==
    \A c \in Conns : (loops[c].wr = "dead") ~> (conn[c].st = "closed")


(***************************************************************************)
(* Presence over time: connections of two users are registered on two      *)
(* pods, clients answer pings, pods crash, and the clock runs past the     *)
(* presence TTL.  No connection is torn down.                              *)
(***************************************************************************)
TTLTime == 6   \* the clock of SpecTTL stops here, after PresTTL

InitTTL == \E i \in {"rmq", "legacy"} : InitAll(i, FALSE, FALSE)

NextTTL ==
    \/ \E c \in Conns, u \in PresenceUsers, p \in Pods : RegisterConnAdd(c, u, p)
    \/ \E c \in Conns : RegisterConnOnline(c)
    \/ \E c \in Conns : readLoopPong(c)
    \/ \E p \in Pods : PodCrash(p)
    \/ TickUpTo(TTLTime)

SpecTTL == InitTTL /\ [][NextTTL]_vars

\* C19: a pod that holds a registered, live connection of a user is in the
\* user's presence set.
PresenceWhileLive ==
    \A c \in Conns :
        conn[c].st = "open" => conn[c].pod \in presence[conn[c].user]

\* C20: with the Redis registry of the orchestrator, once the presence TTL
\* has passed since a pod crashed (so that the TTL of each of its
\* registrations has lapsed), the pod is in no user's presence set.
CrashedPodRemoved ==
    impl = "rmq" =>
        \A p \in Pods, u \in Users :
            (crashedAt[p] # NoExp /\ now >= crashedAt[p] + PresTTL) => p \notin presence[u]

(***************************************************************************)
(* Frames: connections of one user on one pod whose clients send frames    *)
(* that the limiter refuses, that are not JSON, or whose type has or has   *)
(* no handler, while the application registers handlers between            *)
(* connections, callers send to the user.  No AckStore.                    *)
(***************************************************************************)
FrameCalls == 3    \* frames read in one run of SpecFrames
RouterRegs == 2    \* WebSocket.On calls in one run of SpecFrames
FrameSends == 1    \* Sender.SendToUser calls in one run of SpecFrames

FrameUsers == {"u1"}

FrameTypes == {"ack", "chat"}

Frames ==
    { [json |-> FALSE, type |-> "", res |-> "nil"] }
        \cup { [json |-> TRUE, type |-> t, res |-> res] : t \in FrameTypes, res \in {"nil", "error"} }

AppHandlers == {"h1", "h2"}

InitFrames == InitAll("rmq", FALSE, FALSE)

FrameRead ==
    /\ Len(allowed["u1"]) < FrameCalls
    /\ \E c \in Conns, f \in Frames, incrOK \in BOOLEAN : readLoopFrame(c, f, incrOK, TRUE)

FrameOn ==
    /\ Len(regLog) < RouterRegs
    /\ \E t \in FrameTypes, h \in AppHandlers : On(t, h)

FrameSend ==
    /\ nSends < FrameSends
    /\ \E data \in SenderMsgs : SendToUser("p1", "u1", data, TRUE, {})

NextFrames ==
    \/ \E c \in Conns, u \in FrameUsers, p \in StorePods : RegisterConnAdd(c, u, p)
    \/ \E c \in Conns : RegisterConnOnline(c)
    \/ FrameRead
    \/ FrameOn
    \/ FrameSend
    \/ \E c \in Conns : writeLoop(c)
    \/ \E c \in Conns : readLoopExit(c)
    \/ \E c \in Conns : readLoopMarkOffline(c)

SpecFrames == InitFrames /\ [][NextFrames]_vars

Dropped == {"limited", "malformed", "unregistered"}

\* C21: a frame that the limiter refuses, that is not JSON or whose type has
\* no handler changes nothing but the limiter's count: the connection stays
\* open, in the Hub and in the presence set with its outbound channel as it
\* was, its read loop and its write loop go on, no handler runs, and nothing
\* is stored, published or delivered.
DroppedFrameNoEffect ==
    [][ (handled'.type = "frame" /\ handled'.kind \in Dropped) =>
          LET c == handled'.c IN
          /\ conn' = conn
          /\ conn'[c].st = "open"
          /\ hub' = hub
          /\ c \in hub'[conn[c].pod][conn[c].user]
          /\ presence' = presence /\ presExp' = presExp
          /\ loops' = loops
          /\ loops'[c].rd = "read"
          /\ handled'.invoked = << >>
          /\ ackStore' = ackStore /\ queue' = queue /\ inflight' = inflight
          /\ calls' = << >>
      ]_vars

\* The limiter refused a frame of a connection whose outbound channel holds
\* a message; the connection is open and its pod in the presence set.
DroppedFrameWitness ==
    /\ handled.type = "frame"
    /\ handled.kind = "limited"
    /\ conn[handled.c].st = "open"
    /\ conn[handled.c].send # << >>
    /\ conn[handled.c].pod \in presence[conn[handled.c].user]

\* An "error" envelope, as a reply to a frame would be encoded.
IsErrorReply(data) == CanUnmarshal(data) /\ Unmarshal(data).Type = "error"

\* C22: a frame that is not JSON is answered with an envelope of type
\* "error" on the outbound channel of the connection it came from, and the
\* connection stays open.
MalformedFrameAnswered ==
    [][ (handled'.type = "frame" /\ handled'.kind = "malformed") =>
          LET got == Grown(conn', handled'.c) IN
          /\ \E i \in 1..Len(got) : IsErrorReply(got[i])
          /\ conn'[handled'.c].st = "open"
      ]_vars

\* The Router.Register calls so far for type t, by their place in the log.
Registrations(t) == {i \in 1..Len(regLog) : regLog[i].type = t}

Latest(S) == CHOOSE i \in S : \A j \in S : j <= i

\* C25: Router.Dispatch for a frame of type t invokes the handler of the
\* latest Router.Register call for t, once, no other handler, and returns
\* what that handler returns; with no call for t it invokes nothing and
\* returns nil.
DispatchLastRegistered ==
    (handled.type = "frame" /\ handled.kind \in {"handler", "unregistered"}) =>
        LET t == handled.frame.type IN
        IF Registrations(t) = {}
        THEN handled.invoked = << >> /\ handled.err = "nil"
        ELSE /\ handled.invoked = << regLog[Latest(Registrations(t))].handler >>
             /\ handled.err = handled.frame.res

\* A type was registered twice, with different handlers, and a frame of
\* the type went to the second, whose error Dispatch returned.
DispatchWitness ==
    /\ handled.type = "frame"
    /\ handled.kind = "handler"
    /\ Cardinality(Registrations(handled.frame.type)) = 2
    /\ regLog[1].handler # regLog[2].handler
    /\ handled.invoked = << regLog[2].handler >>
    /\ handled.err = "error"

(***************************************************************************)
(* Failures: connections of one user on one pod are registered, torn down, *)
(* sent to and acknowledged while any storage call and any publish may     *)
(* fail.  The pods run RMQSender or the older Sender.                      *)
(***************************************************************************)
ErrorSends == 1    \* SendToUser calls in one run of SpecErrors

ErrorEnvelopes == { Envelope(NoUser, "m1", TRUE, 0) }

InitErrors == \E i \in {"rmq", "legacy"} : InitAll(i, TRUE, FALSE)

\* The orchestrator's SendToUser over RMQSender.
ErrorsCall ==
    /\ impl = "rmq"
    /\ nSends < ErrorSends
    /\ \E p \in Pods, u \in AckUsers, e \in ErrorEnvelopes, regOK \in BOOLEAN, setexOK \in BOOLEAN :
          \E F \in Failing(p, u, regOK) : WebSocketSendToUserOn(p, u, e, regOK, F, setexOK)

\* The older Sender, called by the application.
ErrorsLegacyCall ==
    /\ impl = "legacy"
    /\ nSends < ErrorSends
    /\ \E p \in Pods, u \in AckUsers, data \in SenderMsgs, regOK \in BOOLEAN :
          \E F \in Failing(p, u, regOK) : SendToUser(p, u, data, regOK, F)

NextErrors ==
    \/ \E c \in Conns, u \in AckUsers, p \in AckPods : RegisterConnAdd(c, u, p)
    \/ \E c \in Conns, saddOK \in BOOLEAN, expireOK \in BOOLEAN :
          (~saddOK => expireOK) /\ RegisterConnOnlineOn(c, saddOK, expireOK)
    \/ \E c \in Conns : readLoopExit(c)
    \/ \E c \in Conns, sremOK \in BOOLEAN : readLoopMarkOfflineOn(c, sremOK)
    \/ \E c \in Conns : writeLoop(c)
    \/ \E c \in Conns, id \in AckIDs, delOK \in BOOLEAN : readLoopAckOn(c, id, delOK)
    \/ \E c \in Conns, u \in AckUsers, p \in AckPods : retryUnacked([c |-> c, user |-> u, pod |-> p])
    \/ ErrorsCall
    \/ ErrorsLegacyCall
    \/ \E q \in Pods : runSubscriberReceive(q)
    \/ \E q \in Pods : runSubscriberHandle(q)

SpecErrors == InitErrors /\ [][NextErrors]_vars

\* C23: an operation of the presence registry, the ack store or the Sender
\* during which a storage call or a publish failed returned an error to its
\* caller.
FailuresReturned ==
    /\ handled.type \in {"MarkOnline", "MarkOffline", "Save"} => handled.err \notin {"nil", "none"}
    /\ (handled.type = "ack" /\ ~handled.delOK) => handled.err # "nil"
    /\ last.called =>
          ((~last.regOK \/ \E i \in 1..Len(last.attempts) : ~last.attempts[i].ok)
              => last.ret # "nil")

(***************************************************************************)
(* Registry: connections of one user come and go on two pods while time    *)
(* passes, with the Redis registry of the orchestrator or with the older   *)
(* PresenceRegistry, whose Remove is three commands.                       *)
(***************************************************************************)
RegistryUsers == {"u1"}

InitRegistry == \E i \in {"rmq", "legacy"} : InitAll(i, FALSE, FALSE)

NextRegistry ==
    \/ \E c \in Conns, u \in RegistryUsers, p \in Pods : RegisterConnAdd(c, u, p)
    \/ \E c \in Conns : RegisterConnOnline(c)
    \/ \E c \in Conns : readLoopExit(c)
    \/ \E c \in Conns : impl = "rmq" /\ readLoopMarkOffline(c)
    \/ \E c \in Conns : PresenceRegistryRemoveSrem(c)
    \/ \E c \in Conns : PresenceRegistryRemoveScard(c)
    \/ \E c \in Conns : PresenceRegistryRemoveDel(c)
    \/ TickUpTo(TTLTime)

SpecRegistry == InitRegistry /\ [][NextRegistry]_vars

\* The step is the SREM of a MarkOffline(u, p), or the SREM or the DEL of a
\* Remove(u, p).
MarkedOffline(u, p) ==
    \E c \in Conns :
        /\ conn[c].user = u /\ conn[c].pod = p
        /\ \/ conn[c].st = "closing" /\ conn'[c].st \in {"srem", "closed"}
           \/ conn[c].st = "del" /\ conn'[c].st = "closed"

\* The step is the MarkOnline(u, p) or Add(u, p) of a registration.
MarkedOnline(u, p) ==
    \E c \in Conns :
        /\ conn[c].user = u /\ conn[c].pod = p
        /\ conn[c].st = "added" /\ conn'[c].st = "open"

\* The step is the end of the time to live of the user's key.
Lapsed(u) == presExp[u] # NoExp /\ now' >= presExp[u]

\* C24: a pod is in the user's set from the MarkOnline of the pair on, once
\* however often MarkOnline is repeated, and leaves the set only by the
\* MarkOffline of the pair or when the key's time to live runs out; after
\* MarkOffline the pod is not in the set, and GetUserPods of an empty set is
\* the empty list.
PresenceSetSemantics ==
    [][ \A u \in RegistryUsers, p \in Pods :
          /\ MarkedOnline(u, p) =>
                /\ p \in presence'[u]
                /\ presence'[u] = presence[u] \cup {p}
                /\ \A pods \in Orders(presence'[u]) :
                      Cardinality({i \in 1..Len(pods) : pods[i] = p}) = 1
          /\ (p \in presence[u] /\ p \notin presence'[u]) => (MarkedOffline(u, p) \/ Lapsed(u))
          /\ MarkedOffline(u, p) => p \notin presence'[u]
          /\ presence'[u] = {} => Orders(presence'[u]) = { << >> }
      ]_vars

\* The same, of the Redis registry of the orchestrator alone.
RedisRegistrySetSemantics ==
    [][ impl = "rmq" =>
        \A u \in RegistryUsers, p \in Pods :
          /\ MarkedOnline(u, p) =>
                /\ p \in presence'[u]
                /\ presence'[u] = presence[u] \cup {p}
          /\ (p \in presence[u] /\ p \notin presence'[u]) => (MarkedOffline(u, p) \/ Lapsed(u))
          /\ MarkedOffline(u, p) => p \notin presence'[u]
      ]_vars

(***************************************************************************)
(* Lifecycle: start and stop hooks are registered, Run is called, a start  *)
(* hook may fail, and the shutdown signal arrives at any moment of Run.    *)
(* Fairness: Run goes on, that is, every hook returns; the signal need     *)
(* not come.                                                               *)
(***************************************************************************)
MaxHooks == 4     \* OnStart and OnStop calls in one run of SpecLifecycle

InitLifecycle == InitAll("rmq", FALSE, FALSE)

RunStep ==
    \/ \E ok \in BOOLEAN : RunStartHook(ok)
    \/ RunMain
    \/ RunDone
    \/ RunStopHook
    \/ RunReturn

NextLifecycle ==
    \/ lifecycle.n < MaxHooks /\ OnStart
    \/ lifecycle.n < MaxHooks /\ OnStop
    \/ RunBegin
    \/ Signal
    \/ RunStep

SpecLifecycle == InitLifecycle /\ [][NextLifecycle]_vars /\ WF_vars(RunStep)

\* The places of the log with an event of the kind, and the hooks there.
Events(ev) == {k \in 1..Len(lifecycle.log) : lifecycle.log[k].ev = ev}

HooksRun(ev) ==
    LET pick(e) == e.ev = ev IN
    [k \in 1..Len(SelectSeq(lifecycle.log, pick)) |-> SelectSeq(lifecycle.log, pick)[k].hook]

IsPrefix(a, b) == Len(a) <= Len(b) /\ \A k \in 1..Len(a) : a[k] = b[k]

\* The hooks of a list in the order of their registration, and in its reverse.
RECURSIVE Ascending(_)
Ascending(S) ==
    IF S = {} THEN << >>
    ELSE LET m == CHOOSE x \in S : \A y \in S : x <= y IN << m >> \o Ascending(S \ {m})

RECURSIVE Descending(_)
Descending(S) ==
    IF S = {} THEN << >>
    ELSE LET m == CHOOSE x \in S : \A y \in S : x >= y IN << m >> \o Descending(S \ {m})

LifecycleOrder ==
    LET starts == HooksRun("start")
        stops == HooksRun("stop")
    IN
    \* start hooks run in the order of their registration
    /\ IsPrefix(starts \o HooksRun("failed"), Ascending(Range(lifecycle.onStart)))
    \* the main is started once, after every start hook, and not after a failure
    /\ Cardinality(Events("main")) <= 1
    /\ \A m \in Events("main") :
          /\ starts = Ascending(Range(lifecycle.onStart))
          /\ \A k \in Events("start") : k < m
    /\ Events("failed") # {} => Events("main") = {} /\ stops = << >>
    \* stop hooks run after the signal, in the reverse order of their registration
    /\ \A k \in Events("stop") : \E g \in Events("signal") : g < k
    /\ IsPrefix(stops, Descending(Range(lifecycle.onStop)))
    \* when Run has returned every stop hook has run, once
    /\ lifecycle.pc = "returned" => stops = Descending(Range(lifecycle.onStop))

InitGrpc == InitAll("rmq", FALSE, FALSE)

NextGrpc ==
    \/ \E a \in Addrs : ServerStart(a)
    \/ \E a \in Addrs : ServerCtxDone(a)
    \/ \E a \in Addrs : HeartbeatRegister(a)
    \/ \E a \in Addrs : HeartbeatReturn(a)
    \/ \E a \in Addrs : ServerShutdownUnregister(a)
    \/ \E a \in Addrs : ServerShutdownStop(a)
    \/ ServiceTick(SvcTime)

SpecGrpc == InitGrpc /\ [][NextGrpc]_vars

\* While a server runs, its address is in the registry set of the service.
RegisteredWhileServing ==
    \A a \in Addrs : (server[a].pc = "serving" /\ ~server[a].done) => a \in services.members

\* C27: the address of a server whose graceful shutdown has completed is
\* not in the registry set of its service, whatever its heartbeat task did
\* or does; the address of a running server is in the set.
ServiceRegistryFollowsServer ==
    /\ RegisteredWhileServing
    /\ \A a \in Addrs : server[a].pc = "stopped" => a \notin services.members

(***************************************************************************)
(* Expired entries, in the transition system of the restore requests: it   *)
(* has the retry sweep and the restore handler side by side.               *)
(***************************************************************************)
\* The stored message's expiresAt is set and already in the past.
Past(data) == Unmarshal(data).ExpiresAt > 0 /\ Unmarshal(data).ExpiresAt < now

ExpiredRestoreSeen ==
    /\ handled.type = "restore"
    /\ handled.keysOK
    /\ calls = << >>
    /\ \E k \in Keys(ackStore, handled.user) : Past(ackStore[k].data)

(***************************************************************************)
(* The target of the retry sweep, in the transition system of the          *)
(* acknowledgments: one user with up to two connections on a pod.          *)
(***************************************************************************)
\* Connection d is registered and the sweep of its own registration is over.
Settled(d) == conn[d].st = "open" /\ \A r \in retry : r.c # d

\* C29: the retry sweep that the registration of connection c started puts
\* messages on the outbound channel of c only: the channel of a connection
\* whose registration was over before is after the sweep what it was before.
SweepToNewSocketOnly ==
    [][ swept'.done =>
           \A d \in Conns \ {swept'.c} : Settled(d) => conn'[d].send = conn[d].send
      ]_vars

(***************************************************************************)
(* The expiry of the rate counters, in the transition system of the rate   *)
(* limiter.                                                                *)
(***************************************************************************)
\* C30: in every reachable state each rate counter key that exists carries
\* an expiry, so that its window runs out and the count starts again.
EveryCounterExpires ==
    \A u \in Users : rl[u] # None => rl[u].exp # NoExp

(***************************************************************************)
(* The older Hub: two connections of one user are registered, read, are    *)
(* pinged and torn down on one pod while a caller of Hub.Send delivers.    *)
(***************************************************************************)
InitLegacyHub == InitAll("legacy", FALSE, FALSE)

NextLegacyHub ==
    \/ \E c \in LegacyConns : HubRegister(c)
    \/ \E c \in LegacyConns : HubRegisterAdd(c)
    \/ \E c \in LegacyConns : HubListenReadError(c)
    \/ \E c \in LegacyConns : HubListenCloseFrameDone(c)
    \/ \E c \in LegacyConns : HubListenReply(c)
    \/ \E c \in LegacyConns : HubListenReplyDone(c)
    \/ \E c \in LegacyConns : WebSocketConnClose(c)
    \/ \E c \in LegacyConns : WebSocketConnCloseDone(c)
    \/ \E c \in LegacyConns : HubUnregister(c)
    \/ \E c \in LegacyConns : HubUnregisterRemoved(c)
    \/ \E c \in LegacyConns : HubListenPing(c)
    \/ \E c \in LegacyConns : HubListenPingDone(c)
    \/ \E s \in LegacySenders : HubSend(s)
    \/ \E s \in LegacySenders, c \in LegacyConns : HubSendWrite(s, c)
    \/ \E s \in LegacySenders : HubSendWriteDone(s)
    \/ \E s \in LegacySenders : HubSendReturn(s)

SpecLegacyHub == InitLegacyHub /\ [][NextLegacyHub]_vars

\* The writes that take the connection's mutex exclude each other.
LockedWritesSerialized ==
    \A c \in LegacyConns :
        Cardinality({t \in legacyHub.writing[c] : t # Listener(c)}) <= 1

\* C31: at no time are two writes to the socket of one connection in
\* progress, whether of a data message, a ping or a close frame.
SocketWritesSerialized ==
    \A c \in LegacyConns : Cardinality(legacyHub.writing[c]) <= 1


\* A call of the presence store is in progress in the goroutine of c.
InStoreCall(c) == legacyHub.listen[c] \in {"add", "remove"}

\* C35: while a call to the key-value store is in progress in a goroutine,
\* that goroutine does not hold the Hub's mutex, so that Hub.Send and the
\* registration of other connections can go on.
HubLockNotAcrossStore ==
    \A c \in LegacyConns :
        InStoreCall(c) => (legacyHub.mu.w # Listener(c) /\ Listener(c) \notin legacyHub.mu.r)

\* registry.Add of Hub.Register is called after the lock was given back.
HubRegisterAddUnlocked ==
    \A c \in LegacyConns : legacyHub.listen[c] = "add" => legacyHub.mu.w # Listener(c)


(***************************************************************************)
(* The broker client of one pod: the Sender subscribes, the connection is  *)
(* lost and made again, a caller publishes and the client is closed.       *)
(***************************************************************************)
InitClient == InitAll("rmq", FALSE, FALSE)

NextClient ==
    \/ NewRMQSender
    \/ ConnectionLost
    \/ monitorConnection
    \/ monitorConnectionStop
    \/ \E t \in Reconnectors : reconnectStop(t)
    \/ \E t \in Reconnectors : reconnectDial(t)
    \/ \E t \in Reconnectors : connect(t)
    \/ \E t \in Reconnectors : reconnectSubscribe(t)
    \/ \E t \in Reconnectors : reconnectDone(t)
    \/ \E b \in Publishers : PublishLock(b)
    \/ \E b \in Publishers : Publish(b)
    \/ \E k \in 1..MaxSubs : runSubscriberCheck(k)
    \/ \E k \in 1..MaxSubs : runSubscriberConn(k)
    \/ \E k \in 1..MaxSubs : runSubscriberChannelClosed(k)
    \/ ClientClose
    \/ ClientCloseReturn

SpecClient == InitClient /\ [][NextClient]_vars

\* The client is at rest: constructed, not closed, no reconnect under way.
ClientAtRest ==
    /\ client.sender
    /\ ~client.cancelled
    /\ \A t \in Reconnectors : client.th[t].pc \in {"watch", "idle", "publish"}

\* C32: once the Sender of the pod is constructed, and after every loss of
\* the broker connection and reconnect, the client's list of subscriptions
\* holds one entry, for the pod's own topic, and one subscriber loop runs.
SubscribedOnce ==
    ClientAtRest =>
        /\ client.subscribers = << getKey(ClientPod) >>
        /\ Cardinality(Running(client)) = 1


\* C38: a goroutine that holds the client's mutex never asks for it again:
\* no caller of Publish is, with the mutex in its hands, at the c.mu.Lock()
\* of connect, where it would wait for itself and Publish never return.
PublishNeverLocksTwice ==
    \A b \in Publishers : ~(client.mu = << b >> /\ client.th[b].pc = "dialed")

\* C39: while Close holds the client's mutex and waits for the subscriber
\* loops to end, no subscriber loop waits for that mutex.
CloseNeverBlocksSubscribers ==
    client.closer = "wait" => \A k \in 1..MaxSubs : client.subs[k] # "lock"


(***************************************************************************)
(* Envelopes with and without id: one user's connection on one pod, while  *)
(* WebSocket.SendToUser is called with envelopes that ask for an           *)
(* acknowledgment or not and carry an id or not.                           *)
(***************************************************************************)
EnvelopeSends == 2   \* WebSocket.SendToUser calls in one run of SpecEnvelope

EnvelopeConns == {1}

EnvelopeUsers == {"u1"}

EnvelopePods == {"p1"}

EnvelopeInputs == { Envelope(NoUser, id, ra, 0) : id \in {NoID, "m1"}, ra \in BOOLEAN }

InitEnvelope == InitAll("rmq", TRUE, FALSE)

EnvelopeCall ==
    /\ nSends < EnvelopeSends
    /\ \E p \in EnvelopePods, u \in EnvelopeUsers, e \in EnvelopeInputs :
          WebSocketSendToUser(p, u, e, TRUE, {})

NextEnvelope ==
    \/ \E c \in EnvelopeConns, u \in EnvelopeUsers, p \in EnvelopePods : RegisterConnAdd(c, u, p)
    \/ \E c \in EnvelopeConns : RegisterConnOnline(c)
    \/ \E c \in EnvelopeConns : writeLoop(c)
    \/ \E c \in EnvelopeConns : readLoopAck(c, "m1")
    \/ \E c \in EnvelopeConns, u \in EnvelopeUsers, p \in EnvelopePods :
          retryUnacked([c |-> c, user |-> u, pod |-> p])
    \/ EnvelopeCall
    \/ Tick

SpecEnvelope == InitEnvelope /\ [][NextEnvelope]_vars

\* The message asks for an acknowledgment and carries no id.
AckWithoutID(data) == Unmarshal(data).RequiresAck /\ Unmarshal(data).ID = NoID

\* C34: no message that WebSocket.SendToUser hands to the Sender, and no
\* message on the outbound channel of a connection, asks for an
\* acknowledgment without carrying an id (for which no record can exist).
RequiresAckHasID ==
    /\ last.called => ~AckWithoutID(last.data)
    /\ \A c \in Conns : \A i \in 1..Len(conn[c].send) : ~AckWithoutID(conn[c].send[i])

\* With an id, what asks for an acknowledgment and is handed over is stored.
RequiresAckWithIDStored ==
    [][ (last'.called /\ Unmarshal(last'.data).RequiresAck /\ Unmarshal(last'.data).ID # NoID)
           => AckKey(last'.user, Unmarshal(last'.data).ID) \in DOMAIN ackStore' ]_vars


(***************************************************************************)
(* Isolation of the users' records, in the transition system of the ack    *)
(* store: its users are "u1" and "u1:x", its ids "m1" and "x:m1".          *)
(***************************************************************************)
\* The sends so far that saved a record for user u.
SavedFor(u) == {k \in DOMAIN sent : k[1] = u}

\* C36: a retry sweep for user U hands to Hub.SendLocal only messages that
\* were saved for U, and an acknowledgment on a connection of U removes only
\* a record that was saved for U, whatever the ids are made of.
AckStoreIsolated ==
    [][ /\ swept'.done =>
              \A i \in 1..Len(calls') :
                  \E k \in SavedFor(calls'[i].user) : sent[k].data = calls'[i].data
        /\ handled'.type = "ack" =>
              \A key \in DOMAIN ackStore \ DOMAIN ackStore' :
                  \E k \in SavedFor(handled'.user) : AckKey(k[1], k[2]) = key
      ]_vars


(***************************************************************************)
(* The restore handler's channel send, in the transition system of the     *)
(* teardown with its fairness.                                             *)
(***************************************************************************)
\* C37: the handling of a restore frame always comes to an end: a readLoop
\* that waits in restoreHandler for room in the outbound channel gets on,
\* also when the channel is full and the writeLoop has ended.
RestoreHandlerReturns ==
    \A c \in Conns : (loops[c].rd = "blocked") ~> (loops[c].rd # "blocked")


(***************************************************************************)
(* The life of a connection, in the transition system of the teardown.     *)
(* conn[c].st is "added" from Hub.Add on (Connecting), "open" once         *)
(* RegisterConn is through (Registered), "closing" from Hub.Remove on and  *)
(* "closed" after MarkOffline; a closed slot is taken by a new connection. *)
(***************************************************************************)
ConnOrder ==
    { << "none", "added" >>, << "added", "open" >>, << "open", "closing" >>,
      << "closing", "closed" >>, << "closed", "added" >> }

Member(h, cn, c) == cn[c].user \in Users /\ cn[c].pod \in Pods /\ c \in h[cn[c].pod][cn[c].user]

\* C33: a connection goes from Connecting to Registered to Closing to Closed
\* and never back; its loops are started in the step that makes it
\* Registered, when it is in the Hub already, and that step marks the user
\* online and triggers the retry sweep; a Closed connection is in no Hub.
ConnLifecycle ==
    [][ \A c \in Conns :
          /\ conn'[c].st # conn[c].st => << conn[c].st, conn'[c].st >> \in ConnOrder
          /\ (loops[c] = NoLoops /\ loops'[c] # NoLoops) =>
                /\ conn[c].st = "added" /\ conn'[c].st = "open"
                /\ Member(hub, conn, c)
                /\ Member(hub', conn', c)
                /\ conn[c].pod \in presence'[conn[c].user]
                /\ hasAck => [c |-> c, user |-> conn[c].user, pod |-> conn[c].pod] \in retry'
          /\ loops'[c].rd \in {"read", "blocked"} => Member(hub', conn', c)
          /\ conn'[c].st = "closed" => \A p \in Pods, u \in Users : c \notin hub'[p][u]
      ]_vars

\* One connection went through all four states and is closed while another
\* one is registered and read from.
ConnLifecycleWitness ==
    \E c, d \in Conns :
        /\ conn[c].st = "closed"
        /\ conn[d].st = "open"
        /\ loops[d].rd = "read"

=============================================================================
